---- MODULE Spec2Model ----
(***************************************************************************)
(* Model of the three fare scrapers of the repository                      *)
(*   Capo : src/capoviagens_scraper_gha.py                                 *)
(*   Flip : src/flipmilhas-scraper/flipmilhas-scraper/                     *)
(*          flipmilhas_scraper_gha.py                                      *)
(*   Max  : src/unnamed/part_000 (maxmilhas_scraper_gha.py)                *)
(* A text is a sequence of one-character tokens; characters outside ASCII  *)
(* are written as named tokens ("e_acute", "a_tilde", "endash").           *)
(* Python's None is NoneTxt for a text, NoneVal for a parsed value.        *)
(***************************************************************************)
EXTENDS Integers, Sequences, FiniteSets, TLC

(***************************************************************************)
(* Bounds of the model                                                     *)
(***************************************************************************)
\* number of routes of TRECHOS the cycle iterates (the source lists 20)
NumTrechos == 2
\* number of advance-day values of ADVP_LIST the cycle iterates (the source lists 8)
NumAdvp == 2
\* the poll budget --espera, in seconds (the source defaults to 20 or 25)
EsperaSec == 2
\* number of midnights that may pass during a run
MaxMidnights == 1

(***************************************************************************)
(* Characters and texts                                                    *)
(***************************************************************************)
NoneTxt == <<"None">>
NoneVal == <<"None">>

Truthy(t) == t # NoneTxt /\ t # <<>>

Digits == {"0", "1", "2", "3", "4", "5", "6", "7", "8", "9"}

IsDigit(c) == c \in Digits

DigitVal(c) ==
    CASE c = "0" -> 0 [] c = "1" -> 1 [] c = "2" -> 2 [] c = "3" -> 3
      [] c = "4" -> 4 [] c = "5" -> 5 [] c = "6" -> 6 [] c = "7" -> 7
      [] c = "8" -> 8 [] c = "9" -> 9

UpperLetters ==
    <<"A", "B", "C", "D", "E", "F", "G", "H", "I", "J", "K", "L", "M",
      "N", "O", "P", "Q", "R", "S", "T", "U", "V", "W", "X", "Y", "Z",
      "E_acute", "A_tilde">>

LowerLetters ==
    <<"a", "b", "c", "d", "e", "f", "g", "h", "i", "j", "k", "l", "m",
      "n", "o", "p", "q", "r", "s", "t", "u", "v", "w", "x", "y", "z",
      "e_acute", "a_tilde">>

IsUpper(c) == \E i \in DOMAIN UpperLetters : UpperLetters[i] = c

IsLower(c) == \E i \in DOMAIN LowerLetters : LowerLetters[i] = c

\* str.lower() and the (?i) flag, one character
Lower(c) ==
    IF IsUpper(c)
    THEN LowerLetters[CHOOSE i \in DOMAIN UpperLetters : UpperLetters[i] = c]
    ELSE c

\* \s of re and the characters str.strip() removes
IsSpace(c) == c \in {" ", "\t", "\n", "\r"}

\* \w of re
IsWord(c) == IsUpper(c) \/ IsLower(c) \/ IsDigit(c) \/ c = "_"

\* s[a..b], empty when a > b
Slice(s, a, b) == IF a > b THEN <<>> ELSE SubSeq(s, a, b)

RECURSIVE LStrip(_)
LStrip(s) == IF s # <<>> /\ IsSpace(Head(s)) THEN LStrip(Tail(s)) ELSE s

RECURSIVE RStrip(_)
RStrip(s) ==
    IF s # <<>> /\ IsSpace(s[Len(s)]) THEN RStrip(Slice(s, 1, Len(s) - 1)) ELSE s

\* str.strip()
Strip(s) == RStrip(LStrip(s))

\* (el.text or "").strip() of a lookup that found its element; None is kept
\* for a lookup that found nothing
StripTxt(t) == IF t = NoneTxt THEN NoneTxt ELSE Strip(t)

RECURSIVE DigitsToNat(_)
DigitsToNat(ds) ==
    IF ds = <<>> THEN 0
    ELSE 10 * DigitsToNat(Slice(ds, 1, Len(ds) - 1)) + DigitVal(ds[Len(ds)])

RECURSIVE Pow10(_)
Pow10(k) == IF k = 0 THEN 1 ELSE 10 * Pow10(k - 1)

\* s.lower()
LowerTxt(s) == IF s = <<>> THEN <<>> ELSE [i \in 1..Len(s) |-> Lower(s[i])]

\* needle in s
Contains(s, needle) ==
    \E p \in 1..(Len(s) - Len(needle) + 1) :
        Slice(s, p, p + Len(needle) - 1) = needle

(***************************************************************************)
(* Money: brl_to_decimal (Flip, Max) and brl_to_float (Capo).  A parsed    *)
(* amount is <<n, k>>, the number n / 10^k; a float cell is the amount in  *)
(* lowest terms (Canon), so that 450.00 and 450 are the same cell value.   *)
(***************************************************************************)
IsMoneyChar(c) == IsDigit(c) \/ c = "," \/ c = "."

NotDot(c) == c # "."

\* the separators read the English way: "," between thousands, "." before the
\* cents
MoneyCharsEnglish(txt) ==
    SelectSeq(SelectSeq(txt, IsMoneyChar), LAMBDA c : c # ",")

\* the "." between thousands left in the text
MoneyCharsKeepDots(txt) ==
    LET kept == SelectSeq(txt, IsMoneyChar)
    IN  IF kept = <<>> THEN <<>>
        ELSE [i \in 1..Len(kept) |-> IF kept[i] = "," THEN "." ELSE kept[i]]

\* re.sub(r"[^\d,\.]", "", txt).replace(".", "").replace(",", ".")
MoneyChars(txt) ==
    LET kept == SelectSeq(txt, IsMoneyChar)
        nodot == SelectSeq(kept, NotDot)
    IN  IF nodot = <<>> THEN <<>>
        ELSE [i \in 1..Len(nodot) |-> IF nodot[i] = "," THEN "." ELSE nodot[i]]

\* the texts Decimal(s) and float(s) accept, for s made of digits and "."
IsNumeral(s) ==
    /\ Cardinality({i \in 1..Len(s) : s[i] = "."}) <= 1
    /\ \E i \in 1..Len(s) : IsDigit(s[i])

\* the value of a numeral: its digits, and the count of digits after the point
NumeralValue(s) ==
    LET dot == IF \E i \in 1..Len(s) : s[i] = "."
               THEN CHOOSE i \in 1..Len(s) : s[i] = "."
               ELSE Len(s) + 1
    IN  <<DigitsToNat(SelectSeq(s, IsDigit)), IF dot > Len(s) THEN 0 ELSE Len(s) - dot>>

brl_to_decimal(txt) ==
    IF ~Truthy(txt) THEN NoneVal
    ELSE LET s == MoneyChars(txt)
         IN  IF IsNumeral(s) THEN NumeralValue(s) ELSE NoneVal

RECURSIVE Canon(_)
Canon(d) ==
    IF d[2] > 0 /\ d[1] % 10 = 0 THEN Canon(<<d[1] \div 10, d[2] - 1>>) ELSE d

\* float(x) if x is not None else None
ToFloat(d) == IF d = NoneVal THEN NoneVal ELSE Canon(d)

brl_to_float(s) == ToFloat(brl_to_decimal(s))

\* Decimal truth value: None and zero are false
DecTruthy(d) == d # NoneVal /\ d[1] # 0

\* a or Decimal(0)
OrZero(d) == IF DecTruthy(d) THEN d ELSE <<0, 0>>

DecAdd(a, b) ==
    LET k == IF a[2] > b[2] THEN a[2] ELSE b[2]
    IN  <<a[1] * Pow10(k - a[2]) + b[1] * Pow10(k - b[2]), k>>

(***************************************************************************)
(* Time of day <<h, m, s>>, date <<y, m, d>>, datetime <<y, m, d, h, m, s>>*)
(***************************************************************************)
\* \d{2}:\d{2} at position p of s
TimeAt(s, p) ==
    /\ p >= 1 /\ p + 4 <= Len(s)
    /\ IsDigit(s[p]) /\ IsDigit(s[p + 1]) /\ s[p + 2] = ":"
    /\ IsDigit(s[p + 3]) /\ IsDigit(s[p + 4])

\* the optional group (?::(\d{2}))? after a time at p
SecAt(s, p) ==
    /\ p + 7 <= Len(s)
    /\ s[p + 5] = ":" /\ IsDigit(s[p + 6]) /\ IsDigit(s[p + 7])

Num2(s, p) == DigitsToNat(Slice(s, p, p + 1))

\* the groups of a match at p, ss = "00" when the group is absent
TimeGroups(s, p) ==
    <<Num2(s, p), Num2(s, p + 3), IF SecAt(s, p) THEN Num2(s, p + 6) ELSE 0>>

\* dtime(h, m, s) raises ValueError outside these ranges
ValidTime(t) == t[1] <= 23 /\ t[2] <= 59 /\ t[3] <= 59

MakeTime(t) == IF ValidTime(t) THEN t ELSE NoneVal

\* Capo: re.fullmatch on the stripped text
hhmm_to_time(txt) ==
    IF ~Truthy(txt) THEN NoneVal
    ELSE LET s == Strip(txt)
         IN  IF TimeAt(s, 1) /\ (Len(s) = 5 \/ (Len(s) = 8 /\ SecAt(s, 1)))
             THEN MakeTime(TimeGroups(s, 1))
             ELSE NoneVal

\* re.search: the leftmost position where the pattern matches, 0 when none
FirstTimeAt(s) ==
    IF \E p \in 1..Len(s) : TimeAt(s, p)
    THEN CHOOSE p \in 1..Len(s) : TimeAt(s, p) /\ \A q \in 1..(p - 1) : ~TimeAt(s, q)
    ELSE 0

\* Max: re.search on the stripped text
parse_time_only(txt) ==
    IF ~Truthy(txt) THEN NoneVal
    ELSE LET s == Strip(txt)
             p == FirstTimeAt(s)
         IN  IF p = 0 THEN NoneVal ELSE MakeTime(TimeGroups(s, p))

IsLeap(y) == (y % 4 = 0 /\ y % 100 # 0) \/ y % 400 = 0

DaysInMonth(y, m) ==
    CASE m \in {1, 3, 5, 7, 8, 10, 12} -> 31
      [] m \in {4, 6, 9, 11} -> 30
      [] OTHER -> IF IsLeap(y) THEN 29 ELSE 28

\* datetime(y, m, d, ...) raises ValueError outside these ranges
ValidDate(y, m, d) ==
    /\ y >= 1 /\ y <= 9999 /\ m >= 1 /\ m <= 12
    /\ d >= 1 /\ d <= DaysInMonth(y, m)

NextDay(dt) ==
    IF dt[3] < DaysInMonth(dt[1], dt[2]) THEN <<dt[1], dt[2], dt[3] + 1>>
    ELSE IF dt[2] < 12 THEN <<dt[1], dt[2] + 1, 1>>
    ELSE <<dt[1] + 1, 1, 1>>

\* date + timedelta(days=n)
RECURSIVE AddDays(_, _)
AddDays(dt, n) == IF n = 0 THEN dt ELSE AddDays(NextDay(dt), n - 1)

MakeDateTime(y, m, d, t) ==
    IF ValidDate(y, m, d) /\ ValidTime(t) THEN <<y, m, d>> \o t ELSE NoneVal

DateOf(dtm) == IF dtm = NoneVal THEN NoneVal ELSE SubSeq(dtm, 1, 3)

TimeOf(dtm) == IF dtm = NoneVal THEN NoneVal ELSE SubSeq(dtm, 4, 6)

\* \d{2}/\d{2} at position p of s
DayMonthAt(s, p) ==
    /\ p >= 1 /\ p + 4 <= Len(s)
    /\ IsDigit(s[p]) /\ IsDigit(s[p + 1]) /\ s[p + 2] = "/"
    /\ IsDigit(s[p + 3]) /\ IsDigit(s[p + 4])

\* /\d{4} after a day and month at p
YearAt(s, p) ==
    /\ p + 9 <= Len(s) /\ s[p + 5] = "/"
    /\ \A i \in (p + 6)..(p + 9) : IsDigit(s[i])

\* the end of the run of \s+ that starts at position p, p - 1 when none
RECURSIVE SpaceRunEnd(_, _)
SpaceRunEnd(s, p) ==
    IF p <= Len(s) /\ IsSpace(s[p]) THEN SpaceRunEnd(s, p + 1) ELSE p - 1

\* (\d{2})/(\d{2})/(\d{4})\s+(\d{2}):(\d{2})(?::(\d{2}))? at p
FullDateTimeAt(s, p) ==
    /\ DayMonthAt(s, p) /\ YearAt(s, p)
    /\ SpaceRunEnd(s, p + 10) >= p + 10
    /\ TimeAt(s, SpaceRunEnd(s, p + 10) + 1)

\* (\d{2})/(\d{2})\s+(\d{2}):(\d{2})(?::(\d{2}))? at p
ShortDateTimeAt(s, p) ==
    /\ DayMonthAt(s, p)
    /\ SpaceRunEnd(s, p + 5) >= p + 5
    /\ TimeAt(s, SpaceRunEnd(s, p + 5) + 1)

FirstFullAt(s) ==
    IF \E p \in 1..Len(s) : FullDateTimeAt(s, p)
    THEN CHOOSE p \in 1..Len(s) :
             FullDateTimeAt(s, p) /\ \A q \in 1..(p - 1) : ~FullDateTimeAt(s, q)
    ELSE 0

FirstShortAt(s) ==
    IF \E p \in 1..Len(s) : ShortDateTimeAt(s, p)
    THEN CHOOSE p \in 1..Len(s) :
             ShortDateTimeAt(s, p) /\ \A q \in 1..(p - 1) : ~ShortDateTimeAt(s, q)
    ELSE 0

\* Flip: the three patterns in turn; fallback is a date or NoneVal
parse_datetime_br(txt, fallback) ==
    IF ~Truthy(txt) THEN NoneVal
    ELSE LET s == Strip(txt)
             p1 == FirstFullAt(s)
             p2 == FirstShortAt(s)
             p3 == FirstTimeAt(s)
         IN  IF p1 # 0
             THEN MakeDateTime(DigitsToNat(Slice(s, p1 + 6, p1 + 9)), Num2(s, p1 + 3),
                               Num2(s, p1),
                               TimeGroups(s, SpaceRunEnd(s, p1 + 10) + 1))
             ELSE IF p2 # 0 /\ fallback # NoneVal
             THEN MakeDateTime(fallback[1], Num2(s, p2 + 3), Num2(s, p2),
                               TimeGroups(s, SpaceRunEnd(s, p2 + 5) + 1))
             ELSE IF p3 # 0 /\ fallback # NoneVal
             THEN MakeDateTime(fallback[1], fallback[2], fallback[3], TimeGroups(s, p3))
             ELSE NoneVal

(***************************************************************************)
(* Airline name and fare-class letter                                      *)
(***************************************************************************)
IsAsciiUpper(c) == \E i \in 1..26 : UpperLetters[i] = c

IsAsciiLetter(c) == \E i \in 1..26 : UpperLetters[i] = c \/ LowerLetters[i] = c

\* str.upper(), one character
Upper(c) ==
    IF IsLower(c)
    THEN UpperLetters[CHOOSE i \in DOMAIN LowerLetters : LowerLetters[i] = c]
    ELSE c

\* \b between positions p - 1 and p of s
BoundaryAt(s, p) ==
    (p >= 2 /\ p - 1 <= Len(s) /\ IsWord(s[p - 1])) # (p >= 1 /\ p <= Len(s) /\ IsWord(s[p]))

\* (?i)\blinhas a[e|e_acute]reas\b at position p
PhraseAt(s, p) ==
    /\ p >= 1 /\ p + 12 <= Len(s)
    /\ LowerTxt(Slice(s, p, p + 7)) = <<"l", "i", "n", "h", "a", "s", " ", "a">>
    /\ Lower(s[p + 8]) \in {"e", "e_acute"}
    /\ LowerTxt(Slice(s, p + 9, p + 12)) = <<"r", "e", "a", "s">>
    /\ BoundaryAt(s, p) /\ BoundaryAt(s, p + 13)

\* Flip only: the last position of (?:\s+(s\.?\s*/?\s*a\.?)\b)? matched from
\* position q, q - 1 when the optional group matches nothing
SuffixEnd(s, q) ==
    LET a == SpaceRunEnd(s, q) + 1
        b == IF a + 1 <= Len(s) /\ s[a + 1] = "." THEN a + 2 ELSE a + 1
        c == SpaceRunEnd(s, b) + 1
        d == IF c <= Len(s) /\ s[c] = "/" THEN c + 1 ELSE c
        e == SpaceRunEnd(s, d) + 1
    IN  IF /\ a > q /\ a <= Len(s) /\ Lower(s[a]) = "s"
           /\ e <= Len(s) /\ Lower(s[e]) = "a"
        THEN IF e + 1 <= Len(s) /\ s[e + 1] = "." /\ BoundaryAt(s, e + 2)
             THEN e + 1
             ELSE IF BoundaryAt(s, e + 1) THEN e ELSE q - 1
        ELSE q - 1

\* re.sub(pattern, '', s) from position p on; withSuffix is Flip's pattern
RECURSIVE DropPhrase(_, _, _)
DropPhrase(s, p, withSuffix) ==
    IF p > Len(s) THEN <<>>
    ELSE IF PhraseAt(s, p)
    THEN DropPhrase(s, (IF withSuffix THEN SuffixEnd(s, p + 13) ELSE p + 12) + 1, withSuffix)
    ELSE <<s[p]>> \o DropPhrase(s, p + 1, withSuffix)

\* re.sub(r'\s{2,}', ' ', s) (least = 2) and re.sub(r'\s+', ' ', s) (least = 1)
RECURSIVE CollapseSpaces(_, _, _)
CollapseSpaces(s, p, least) ==
    IF p > Len(s) THEN <<>>
    ELSE IF SpaceRunEnd(s, p) - p + 1 >= least
    THEN <<" ">> \o CollapseSpaces(s, SpaceRunEnd(s, p) + 1, least)
    ELSE <<s[p]>> \o CollapseSpaces(s, p + 1, least)

CiaStripChars == {" ", "-", "endash", ",", ".", ";", ":", "/", "\t", "\n", "\r"}

\* s.strip(" -endash,.;:/\t\n\r")
RECURSIVE StripCia(_)
StripCia(s) ==
    IF s # <<>> /\ Head(s) \in CiaStripChars THEN StripCia(Tail(s))
    ELSE IF s # <<>> /\ s[Len(s)] \in CiaStripChars THEN StripCia(Slice(s, 1, Len(s) - 1))
    ELSE s

clean_cia(txt, withSuffix) ==
    IF ~Truthy(txt) THEN <<>>
    ELSE StripCia(CollapseSpaces(DropPhrase(Strip(txt), 1, withSuffix), 1, 2))

\* Flip's clean_cia_text
clean_cia_text_flip(txt) == clean_cia(txt, TRUE)

\* Max's clean_cia_text
clean_cia_text_max(txt) == clean_cia(txt, FALSE)

\* (?i)tarifa\s*([A-Z])\b at position p: the position of the letter, 0 when no match
TarifaLetterAt(t, p) ==
    IF /\ p + 5 <= Len(t)
       /\ LowerTxt(Slice(t, p, p + 5)) = <<"t", "a", "r", "i", "f", "a">>
    THEN LET q == SpaceRunEnd(t, p + 6) + 1
         IN  IF q <= Len(t) /\ IsAsciiLetter(t[q]) /\ BoundaryAt(t, q + 1) THEN q ELSE 0
    ELSE 0

\* \b([A-Z])\b at position p
LoneUpperAt(t, p) == IsAsciiUpper(t[p]) /\ BoundaryAt(t, p) /\ BoundaryAt(t, p + 1)

\* Max's extract_letra_tarifa
extract_letra_tarifa(txt) ==
    IF ~Truthy(txt) THEN NoneTxt
    ELSE LET t == Strip(CollapseSpaces(txt, 1, 1))
             hits == {p \in 1..Len(t) : TarifaLetterAt(t, p) # 0}
             lone == {p \in 1..Len(t) : LoneUpperAt(t, p)}
         IN  IF hits # {}
             THEN <<Upper(t[TarifaLetterAt(t, CHOOSE p \in hits : \A q \in hits : p <= q)])>>
             ELSE IF lone # {}
             THEN <<t[CHOOSE p \in lone : \A q \in lone : q <= p]>>
             ELSE NoneTxt

(***************************************************************************)
(* Capo's PRICE_RE and TIME_RE                                             *)
(***************************************************************************)
RECURSIVE DigitRunEnd(_, _)
DigitRunEnd(s, p) ==
    IF p <= Len(s) /\ IsDigit(s[p]) THEN DigitRunEnd(s, p + 1) ELSE p - 1

\* (?:\.\d{3})* from position q: the position after the last group taken
RECURSIVE ThousandsEnd(_, _)
ThousandsEnd(s, q) ==
    IF /\ q + 3 <= Len(s) /\ s[q] = "."
       /\ \A i \in (q + 1)..(q + 3) : IsDigit(s[i])
    THEN ThousandsEnd(s, q + 4)
    ELSE q

\* R\$\s*\d{1,3}(?:\.\d{3})*,\d{2} at position p: the last position of the
\* match, 0 when there is none
PriceEndAt(s, p) ==
    IF p + 1 <= Len(s) /\ s[p] = "R" /\ s[p + 1] = "$"
    THEN LET q == SpaceRunEnd(s, p + 2) + 1
             e == DigitRunEnd(s, q)
             c == ThousandsEnd(s, e + 1)
         IN  IF /\ e >= q /\ e - q + 1 <= 3
                /\ c + 2 <= Len(s) /\ s[c] = ","
                /\ IsDigit(s[c + 1]) /\ IsDigit(s[c + 2])
             THEN c + 2
             ELSE 0
    ELSE 0

\* \b\d{2}:\d{2}(?::\d{2})?\b at position p: the last position of the match,
\* 0 when there is none
TimeEndAt(s, p) ==
    IF TimeAt(s, p) /\ BoundaryAt(s, p)
    THEN IF SecAt(s, p) /\ BoundaryAt(s, p + 8) THEN p + 7
         ELSE IF BoundaryAt(s, p + 5) THEN p + 4
         ELSE 0
    ELSE 0

\* re.findall(PRICE_RE, s) from position p on
RECURSIVE FindPrices(_, _)
FindPrices(s, p) ==
    IF p > Len(s) THEN <<>>
    ELSE IF PriceEndAt(s, p) # 0
    THEN <<Slice(s, p, PriceEndAt(s, p))>> \o FindPrices(s, PriceEndAt(s, p) + 1)
    ELSE FindPrices(s, p + 1)

\* re.findall(TIME_RE, s) from position p on
RECURSIVE FindTimes(_, _)
FindTimes(s, p) ==
    IF p > Len(s) THEN <<>>
    ELSE IF TimeEndAt(s, p) # 0
    THEN <<Slice(s, p, TimeEndAt(s, p))>> \o FindTimes(s, TimeEndAt(s, p) + 1)
    ELSE FindTimes(s, p + 1)

(***************************************************************************)
(* The three scrapers: constants                                           *)
(***************************************************************************)
Sites == {"Capo", "Flip", "Max"}

SHEET_NAME(site) == IF site = "Max" THEN "MAX" ELSE "BUSCAS"

\* the header row; the A_tilde of EMISSAO is written out
HEADERS(site) ==
    IF site = "Max"
    THEN <<"DATA DA BUSCA", "HORA DA BUSCA", "TRECHO",
           "DATA DO VOO", "HR IDA", "HR VOLTA",
           "TARIFA", "DESCONTO", "TX DE EMBARQUE", "VALOR COM TAXA",
           "TX DE  EMISS{A_tilde}O", "TOTAL", "CIA DO VOO", "TIPO (A/C)">>
    ELSE <<"DATA DA BUSCA", "HORA DA BUSCA", "TRECHO",
           "DATA PARTIDA", "HORA DA PARTIDA", "DATA CHEGADA", "HORA DA CHEGADA",
           "TARIFA", "TX DE EMBARQUE", "TOTAL", "CIA DO VOO">>

AllTrechos ==
    <<<<"CGH", "SDU">>, <<"SDU", "CGH">>, <<"GRU", "POA">>, <<"POA", "GRU">>,
      <<"CGH", "GIG">>, <<"GIG", "CGH">>, <<"BSB", "CGH">>, <<"CGH", "BSB">>,
      <<"CGH", "REC">>, <<"REC", "CGH">>, <<"CGH", "SSA">>, <<"SSA", "CGH">>,
      <<"BSB", "GIG">>, <<"GIG", "BSB">>, <<"GIG", "REC">>, <<"REC", "GIG">>,
      <<"GIG", "SSA">>, <<"SSA", "GIG">>, <<"BSB", "SDU">>, <<"SDU", "BSB">>>>

AllAdvp == <<1, 3, 7, 14, 21, 30, 60, 90>>

\* the lists the model iterates: the first NumTrechos routes and NumAdvp values
TRECHOS == SubSeq(AllTrechos, 1, NumTrechos)

ADVP_LIST == SubSeq(AllAdvp, 1, NumAdvp)

\* an airport code as a text
Code(a) ==
    CASE a = "CGH" -> <<"C", "G", "H">> [] a = "SDU" -> <<"S", "D", "U">>
      [] a = "GRU" -> <<"G", "R", "U">> [] a = "POA" -> <<"P", "O", "A">>
      [] a = "GIG" -> <<"G", "I", "G">> [] a = "BSB" -> <<"B", "S", "B">>
      [] a = "REC" -> <<"R", "E", "C">> [] a = "SSA" -> <<"S", "S", "A">>

\* f"{origin}-{destiny}"
TrechoStr(tr) == Code(tr[1]) \o <<"-">> \o Code(tr[2])

SemOfertas == <<"S", "e", "m", " ", "O", "f", "e", "r", "t", "a", "s">>

(***************************************************************************)
(* The poll loops.  Time is counted in half seconds.                       *)
(***************************************************************************)
\* time.sleep(1) at the end of a tick
PollSleep == 2
\* Flip: WebDriverWait(driver, 1)
FlipLookupWait == 2
\* Max: WebDriverWait(driver, 1.5)
MaxLookupWait == 3

\* max_wait of the poll loop: --espera seconds
MaxWaitOf(espera) == 2 * espera

TxtNenhumVooLower == <<"n", "e", "n", "h", "u", "m", " ", "v", "o", "o">>
TxtNenhumVoo == <<"N", "e", "n", "h", "u", "m", " ", "v", "o", "o">>
TxtSemResultados == <<"s", "e", "m", " ", "r", "e", "s", "u", "l", "t", "a", "d", "o", "s">>
TxtNaoEncontramos ==
    <<"n", "a_tilde", "o", " ", "e", "n", "c", "o", "n", "t", "r", "a", "m", "o", "s">>

\* Capo: PRICE_RE.search(txt) or TIME_RE.search(txt) on the text of <main>;
\* a lookup that raises is swallowed (txt = NoneTxt)
CapoSignal(txt) ==
    /\ txt # NoneTxt
    /\ (FindPrices(Strip(txt), 1) # <<>> \/ FindTimes(Strip(txt), 1) # <<>>)

\* Flip: "nenhum voo" in (el.text or "").strip().lower(), el the heading
\* XPATH_NO_FLIGHTS; NoneTxt when the heading is not there
FlipMarker(txt) == txt # NoneTxt /\ Contains(LowerTxt(Strip(txt)), TxtNenhumVooLower)

\* Max: an element whose text contains one of the three phrases
MaxMarker(txt) ==
    /\ txt # NoneTxt
    /\ (Contains(txt, TxtNenhumVoo) \/ Contains(txt, TxtSemResultados)
        \/ Contains(txt, TxtNaoEncontramos))

\* One pass through the body of wait_results_ready's loop.
\* The result is what the pass does ("continue": slept and loops again) and
\* the time it took.
CapoTick(obs) ==
    IF CapoSignal(obs.txt) THEN [res |-> "ok", dur |-> 0]
    ELSE [res |-> "continue", dur |-> PollSleep]

\* a pass that looks for the buy buttons before the marker
FlipTickButtonFirst(obs) ==
    IF obs.raises THEN [res |-> "raise", dur |-> 0]
    ELSE IF obs.buy1 THEN [res |-> "buy_ready", dur |-> obs.d2]
    ELSE IF obs.buy2 THEN [res |-> "buy_ready", dur |-> obs.d2 + obs.d3]
    ELSE IF FlipMarker(obs.txt) THEN [res |-> "no_flights", dur |-> obs.d1 + obs.d2 + obs.d3]
    ELSE [res |-> "continue", dur |-> obs.d1 + obs.d2 + obs.d3 + PollSleep]

\* One pass through the body of wait_for_buy_button_or_no_flights's loop.
\* obs.d1, d2, d3: the time each WebDriverWait took (its full wait when the
\* element is not there); obs.raises: a lookup raised something other than
\* TimeoutException.
FlipTick(obs) ==
    IF obs.raises THEN [res |-> "raise", dur |-> 0]
    ELSE IF FlipMarker(obs.txt) THEN [res |-> "no_flights", dur |-> obs.d1]
    ELSE IF obs.buy1 THEN [res |-> "buy_ready", dur |-> obs.d1 + obs.d2]
    ELSE IF obs.buy2 THEN [res |-> "buy_ready", dur |-> obs.d1 + obs.d2 + obs.d3]
    ELSE [res |-> "continue", dur |-> obs.d1 + obs.d2 + obs.d3 + PollSleep]

\* a pass that does not look for the XP_BUY_FALL buttons
MaxTickWithoutFallback(obs) ==
    IF obs.raises THEN [res |-> "raise", dur |-> 0]
    ELSE IF obs.buy1 THEN [res |-> "buy", dur |-> obs.d1]
    ELSE IF MaxMarker(obs.txt) THEN [res |-> "empty", dur |-> obs.d1]
    ELSE [res |-> "continue", dur |-> obs.d1 + PollSleep]

\* One pass through the body of wait_buy_or_empty's loop.
\* obs.buy1: XP_BUY is there (found after obs.d1); obs.buy2: a displayed
\* XP_BUY_FALL button; obs.txt: the text of the page.
MaxTick(obs) ==
    IF obs.raises THEN [res |-> "raise", dur |-> 0]
    ELSE IF obs.buy1 THEN [res |-> "buy", dur |-> obs.d1]
    ELSE IF obs.buy2 THEN [res |-> "buy", dur |-> obs.d1]
    ELSE IF MaxMarker(obs.txt) THEN [res |-> "empty", dur |-> obs.d1]
    ELSE [res |-> "continue", dur |-> obs.d1 + PollSleep]

Tick(site, obs) ==
    CASE site = "Capo" -> CapoTick(obs)
      [] site = "Flip" -> FlipTick(obs)
      [] site = "Max" -> MaxTick(obs)

\* what the loop returns when its budget has run out
TimeoutStatus(site) == "timeout"

\* the outcome in which the row builder goes on to the fare details
SuccessStatus(site) ==
    CASE site = "Capo" -> "ok" [] site = "Flip" -> "buy_ready" [] site = "Max" -> "buy"

\* the no-offers outcome of the loop (Capo has none)
NoOffersStatus(site) ==
    CASE site = "Capo" -> "none" [] site = "Flip" -> "no_flights" [] site = "Max" -> "empty"

(***************************************************************************)
(* What a page can show during the poll                                    *)
(***************************************************************************)
TxtNenhumVooEncontrado ==
    <<"N", "e", "n", "h", "u", "m", " ", "v", "o", "o", " ",
      "e", "n", "c", "o", "n", "t", "r", "a", "d", "o">>
TxtNaoEncontramosVoo ==
    <<"n", "a_tilde", "o", " ", "e", "n", "c", "o", "n", "t", "r", "a", "m", "o", "s",
      " ", "v", "o", "o">>
TxtCarregando == <<"C", "a", "r", "r", "e", "g", "a", "n", "d", "o">>
TxtCard ==
    <<"G", "O", "L", " ", "1", "0", ":", "3", "0", " ", "1", "2", ":", "0", "0", " ",
      "R", "$", " ", "4", "5", "0", ",", "0", "0">>

\* a card whose innerText differs from what the lookups of the model find
TxtCardAzul ==
    <<"A", "Z", "U", "L", " ", "0", "6", ":", "1", "5", " ", "0", "8", ":", "4", "0", ":",
      "1", "0", " ", "R", "$", " ", "1", ".", "2", "9", "9", ",", "9", "0">>

\* texts of <main> (Capo), of the no-flights heading (Flip), of the page (Max);
\* NoneTxt: the element is not there
PollTexts ==
    {NoneTxt, <<>>, TxtCarregando, TxtNenhumVooEncontrado, TxtNenhumVooLower,
     TxtNaoEncontramosVoo, TxtCard}

\* a text that says there are no flights
IsNoResultsText(txt) ==
    txt \in {TxtNenhumVooEncontrado, TxtNenhumVooLower, TxtNaoEncontramosVoo}

CapoObs ==
    {[txt |-> t, buy1 |-> FALSE, d1 |-> 0, buy2 |-> FALSE, d2 |-> 0, d3 |-> 0,
      raises |-> FALSE] : t \in PollTexts}

\* a wait that finds its element returns after 0..wait; one that does not,
\* after the whole wait
WaitTimes(found, wait) == IF found THEN 0..wait ELSE {wait}

FlipObs ==
    {[txt |-> NoneTxt, buy1 |-> FALSE, d1 |-> 0, buy2 |-> FALSE, d2 |-> 0, d3 |-> 0,
      raises |-> TRUE]}
    \cup
    UNION {UNION {UNION {
        {[txt |-> t, buy1 |-> b1, d1 |-> x1, buy2 |-> b2, d2 |-> x2, d3 |-> x3,
          raises |-> FALSE] :
            x1 \in WaitTimes(t # NoneTxt, FlipLookupWait),
            x2 \in WaitTimes(b1, FlipLookupWait),
            x3 \in WaitTimes(b2, FlipLookupWait)}
        : t \in PollTexts \ {TxtCard}} : b1 \in BOOLEAN} : b2 \in BOOLEAN}

MaxObs ==
    {[txt |-> NoneTxt, buy1 |-> FALSE, d1 |-> 0, buy2 |-> FALSE, d2 |-> 0, d3 |-> 0,
      raises |-> TRUE]}
    \cup
    UNION {UNION {
        {[txt |-> t, buy1 |-> b1, d1 |-> x1, buy2 |-> b2, d2 |-> 0, d3 |-> 0,
          raises |-> FALSE] :
            x1 \in WaitTimes(b1, MaxLookupWait), t \in PollTexts \ {NoneTxt, TxtCard}}
        : b1 \in BOOLEAN} : b2 \in BOOLEAN}

TickObs(site) ==
    CASE site = "Capo" -> CapoObs [] site = "Flip" -> FlipObs [] site = "Max" -> MaxObs

(***************************************************************************)
(* Rows.  A row is the list of cells handed to ws.append, in the order of  *)
(* HEADERS.  A date cell is <<y, m, d>>, a time cell <<h, m, s>>, an       *)
(* amount cell <<n, k>>, a text cell a text; None is NoneVal.  The time of *)
(* the search is not modelled: HORA DA BUSCA holds which reading of the    *)
(* clock the code used.                                                    *)
(***************************************************************************)
Hora(which) == <<"hora", which>>

\* row_values.get(h)
RowGet(d, h) == IF h \in DOMAIN d THEN d[h] ELSE NoneVal

\* [row_values.get(h) for h in HEADERS]
DictRow(site, d) == [k \in 1..Len(HEADERS(site)) |-> RowGet(d, HEADERS(site)[k])]

\* the cell of a row under header h
Cell(site, row, h) ==
    row[CHOOSE k \in 1..Len(HEADERS(site)) : HEADERS(site)[k] = h]

\* to_excel_naive(v): the values of a row carry no time zone
to_excel_naive(v) == v

\* the list append_row hands to ws.append: Capo and Flip map the dict through
\* HEADERS, Max takes the list as it is
RowList(site, row_values) ==
    IF site = "Max" THEN [k \in 1..Len(row_values) |-> to_excel_naive(row_values[k])]
    ELSE IF site = "Flip"
    THEN DictRow(site, [h \in DOMAIN row_values |-> to_excel_naive(row_values[h])])
    ELSE DictRow(site, row_values)

\* a page element as a lookup finds it
Missing == [found |-> FALSE, text |-> <<>>, inner |-> <<>>]
Elem(t) == [found |-> TRUE, text |-> t, inner |-> t]
ElemInner(t) == [found |-> TRUE, text |-> <<>>, inner |-> t]

(******************************** Capo *************************************)
\* text_or_inner(el, rel_xpath)
text_or_inner(child) ==
    IF ~child.found THEN NoneTxt
    ELSE LET t == Strip(child.text)
             u == IF t = <<>> THEN Strip(child.inner) ELSE t
         IN  IF u = <<>> THEN NoneTxt ELSE u

\* times[i] + (":00" if len(times[i]) == 5 else "")
WithSeconds(t) == IF Len(t) = 5 THEN t \o <<":", "0", "0">> ELSE t

\* regex_from_inner_text(el); inner = NoneTxt: get_attribute raised, out = {}
regex_from_inner_text(inner) ==
    IF inner = NoneTxt
    THEN [partida |-> NoneTxt, chegada |-> NoneTxt, qualquer_preco |-> NoneTxt]
    ELSE LET txt == Strip(inner)
             times == FindTimes(txt, 1)
             prices == FindPrices(txt, 1)
         IN  [partida |-> IF Len(times) >= 1 THEN WithSeconds(times[1]) ELSE NoneTxt,
              chegada |-> IF Len(times) >= 2 THEN WithSeconds(times[2]) ELSE NoneTxt,
              qualquer_preco |-> IF Len(prices) >= 1 THEN prices[1] ELSE NoneTxt]

\* a or b on texts
OrTxt(a, b) == IF Truthy(a) THEN a ELSE b

\* the regex fallback put before the locator texts
CapoExtractRegexFirst(reads) ==
    LET hp == text_or_inner(reads.partida)
        hc == text_or_inner(reads.chegada)
        ta == text_or_inner(reads.tarifa)
        tx == text_or_inner(reads.tx_emb)
        to == text_or_inner(reads.total)
        ci == text_or_inner(reads.cia)
        parsed == regex_from_inner_text(reads.inner)
        fallback == ~(Truthy(hp) /\ Truthy(to) /\ (Truthy(ta) \/ Truthy(tx)))
    IN  [partida |-> IF fallback THEN OrTxt(parsed.partida, hp) ELSE hp,
         chegada |-> IF fallback THEN OrTxt(parsed.chegada, hc) ELSE hc,
         tarifa |-> IF fallback THEN OrTxt(parsed.qualquer_preco, ta) ELSE ta,
         tx_emb |-> tx,
         total |-> IF fallback THEN OrTxt(parsed.qualquer_preco, to) ELSE to,
         cia |-> ci]

\* the locator texts of the first card, then the regex fallback
CapoExtract(reads) ==
    LET hp == text_or_inner(reads.partida)
        hc == text_or_inner(reads.chegada)
        ta == text_or_inner(reads.tarifa)
        tx == text_or_inner(reads.tx_emb)
        to == text_or_inner(reads.total)
        ci == text_or_inner(reads.cia)
        parsed == regex_from_inner_text(reads.inner)
        fallback == ~(Truthy(hp) /\ Truthy(to) /\ (Truthy(ta) \/ Truthy(tx)))
        anyprice == fallback /\ ~(Truthy(ta) \/ Truthy(to))
    IN  [partida |-> IF fallback THEN OrTxt(hp, parsed.partida) ELSE hp,
         chegada |-> IF fallback THEN OrTxt(hc, parsed.chegada) ELSE hc,
         tarifa |-> IF anyprice THEN OrTxt(ta, parsed.qualquer_preco) ELSE ta,
         tx_emb |-> tx,
         total |-> IF anyprice THEN OrTxt(to, parsed.qualquer_preco) ELSE to,
         cia |-> ci]

CapoSentinel(now_date, trecho_str, data_voo) ==
    "DATA DA BUSCA" :> now_date @@ "HORA DA BUSCA" :> Hora("after_poll")
    @@ "TRECHO" :> trecho_str
    @@ "DATA PARTIDA" :> data_voo @@ "HORA DA PARTIDA" :> NoneVal
    @@ "DATA CHEGADA" :> data_voo @@ "HORA DA CHEGADA" :> NoneVal
    @@ "TARIFA" :> NoneVal @@ "TX DE EMBARQUE" :> NoneVal @@ "TOTAL" :> NoneVal
    @@ "CIA DO VOO" :> SemOfertas

\* the row_values processar_trecho_advp hands to append_row: ok is
\* wait_results_ready's result,
\* reads.card whether first_visible_card found a card
CapoRow(ok, reads, now_date, trecho_str, data_voo) ==
    IF ~ok \/ ~reads.card THEN CapoSentinel(now_date, trecho_str, data_voo)
    ELSE LET x == CapoExtract(reads)
         IN  (   "DATA DA BUSCA" :> now_date @@ "HORA DA BUSCA" :> Hora("after_poll")
                 @@ "TRECHO" :> trecho_str
                 @@ "DATA PARTIDA" :> data_voo
                 @@ "HORA DA PARTIDA" :> hhmm_to_time(x.partida)
                 @@ "DATA CHEGADA" :> data_voo
                 @@ "HORA DA CHEGADA" :> hhmm_to_time(x.chegada)
                 @@ "TARIFA" :> brl_to_float(x.tarifa)
                 @@ "TX DE EMBARQUE" :> brl_to_float(x.tx_emb)
                 @@ "TOTAL" :> brl_to_float(x.total)
                 @@ "CIA DO VOO" :> (IF Truthy(x.cia) THEN Strip(x.cia) ELSE <<>>))

(******************************** Flip *************************************)
\* wait_text: r is el.text of the element found, NoneTxt when the wait times out
wait_text(r) == IF r = NoneTxt THEN NoneTxt ELSE Strip(r)

RECURSIVE WaitTextFrom(_, _, _)
WaitTextFrom(results, k, tries) ==
    IF k > tries THEN NoneTxt
    ELSE IF Truthy(wait_text(results[k])) THEN wait_text(results[k])
    ELSE WaitTextFrom(results, k + 1, tries)

\* wait_text_retry(driver, xpath, tries, delay): results[k] is what try k finds
wait_text_retry(results, tries) == WaitTextFrom(results, 1, tries)

\* the texts read on the second page
FlipExtract(reads) ==
    [partida |-> wait_text_retry(reads.partida, 3),
     chegada |-> wait_text_retry(reads.chegada, 3),
     tarifa |-> wait_text_retry(reads.tarifa, 3),
     tx_emb |-> wait_text_retry(reads.taxa, 3),
     cia |-> wait_text_retry(reads.cia, 2)]

FlipSentinel(now_date, trecho_str) ==
    "DATA DA BUSCA" :> now_date @@ "HORA DA BUSCA" :> Hora("row")
    @@ "TRECHO" :> trecho_str
    @@ "DATA PARTIDA" :> NoneVal @@ "HORA DA PARTIDA" :> NoneVal
    @@ "DATA CHEGADA" :> NoneVal @@ "HORA DA CHEGADA" :> NoneVal
    @@ "TARIFA" :> NoneVal @@ "TX DE EMBARQUE" :> NoneVal @@ "TOTAL" :> NoneVal
    @@ "CIA DO VOO" :> SemOfertas

\* (tarifa_val or Decimal(0)) + (taxa_val or Decimal(0)) if (tarifa_val or taxa_val) else None
FlipTotal(tarifa_val, taxa_val) ==
    IF DecTruthy(tarifa_val) \/ DecTruthy(taxa_val)
    THEN DecAdd(OrZero(tarifa_val), OrZero(taxa_val))
    ELSE NoneVal

\* clean_cia_text(cia_txt) or ("Sem Ofertas" if (tarifa_val is None and taxa_val is None) else "")
FlipCia(cia_txt, tarifa_val, taxa_val) ==
    IF clean_cia_text_flip(cia_txt) # <<>> THEN clean_cia_text_flip(cia_txt)
    ELSE IF tarifa_val = NoneVal /\ taxa_val = NoneVal THEN SemOfertas
    ELSE <<>>

\* the row_values processar_trecho_advp hands to append_row: status is the
\* poll's result, clicked js_click_first_buy's
FlipRow(status, clicked, reads, now_date, trecho_str, data_voo) ==
    IF status \in {"no_flights", "timeout"} \/ ~clicked
    THEN FlipSentinel(now_date, trecho_str)
    ELSE LET x == FlipExtract(reads)
             partida_dt == parse_datetime_br(x.partida, data_voo)
             chegada_dt == parse_datetime_br(x.chegada, data_voo)
             tarifa_val == brl_to_decimal(x.tarifa)
             taxa_val == brl_to_decimal(x.tx_emb)
             total_val == FlipTotal(tarifa_val, taxa_val)
         IN  (   "DATA DA BUSCA" :> now_date @@ "HORA DA BUSCA" :> Hora("row")
                 @@ "TRECHO" :> trecho_str
                 @@ "DATA PARTIDA" :>
                        (IF partida_dt # NoneVal THEN DateOf(partida_dt) ELSE NoneVal)
                 @@ "HORA DA PARTIDA" :>
                        (IF partida_dt # NoneVal THEN TimeOf(partida_dt) ELSE NoneVal)
                 @@ "DATA CHEGADA" :>
                        (IF chegada_dt # NoneVal THEN DateOf(chegada_dt) ELSE NoneVal)
                 @@ "HORA DA CHEGADA" :>
                        (IF chegada_dt # NoneVal THEN TimeOf(chegada_dt) ELSE NoneVal)
                 @@ "TARIFA" :> ToFloat(tarifa_val)
                 @@ "TX DE EMBARQUE" :> ToFloat(taxa_val)
                 @@ "TOTAL" :> ToFloat(total_val)
                 @@ "CIA DO VOO" :> FlipCia(x.cia, tarifa_val, taxa_val))

(********************************* Max *************************************)
\* get_text: r is el.text of the element found, NoneTxt when the wait times out
get_text(r) == IF r = NoneTxt THEN NoneTxt ELSE Strip(r)

RECURSIVE GetTextFrom(_, _)
GetTextFrom(results, k) ==
    IF k > Len(results) THEN NoneTxt
    ELSE IF Truthy(get_text(results[k])) THEN get_text(results[k])
    ELSE GetTextFrom(results, k + 1)

\* get_text_multi(driver, xps): results[k] is what the k-th xpath finds
get_text_multi(results) == GetTextFrom(results, 1)

\* the texts read on the second page
MaxExtract(reads) ==
    [partida |-> get_text(reads.hr_ida),
     chegada |-> get_text(reads.hr_volta),
     tarifa |-> get_text(reads.tarifa_g),
     total |-> get_text_multi(reads.total_j),
     tx_emb |-> get_text_multi(reads.tx_emb),
     tx_emis |-> get_text_multi(reads.tx_emis),
     desc |-> get_text_multi(reads.desc),
     cia |-> get_text(reads.cia),
     tipo |-> get_text_multi(reads.tipo)]

MaxSentinel(data_busca, trecho_str, data_voo) ==
    <<data_busca, Hora("begin"), trecho_str, data_voo, NoneVal, NoneVal, NoneVal,
      NoneVal, NoneVal, NoneVal, NoneVal, NoneVal, SemOfertas, <<>>>>

\* the values of a search that read the second page
MaxOffer(reads, data_busca, trecho_str, data_voo) ==
         LET x == MaxExtract(reads)
             tipo_letra == IF extract_letra_tarifa(x.tipo) # NoneVal
                           THEN extract_letra_tarifa(x.tipo) ELSE <<>>
             desconto == IF Truthy(x.desc) THEN brl_to_decimal(x.desc) ELSE NoneVal
             total_j == brl_to_decimal(x.total)
             total_l == total_j
             cia == clean_cia_text_max(x.cia)
         IN  <<data_busca, Hora("begin"), trecho_str,
               data_voo, parse_time_only(x.partida), parse_time_only(x.chegada),
               ToFloat(brl_to_decimal(x.tarifa)),
               ToFloat(desconto),
               ToFloat(brl_to_decimal(x.tx_emb)),
               ToFloat(total_j),
               ToFloat(brl_to_decimal(x.tx_emis)),
               ToFloat(total_l),
               IF cia # <<>> THEN cia ELSE <<>>,
               tipo_letra>>

\* a search that gives up only when the page said there is no flight
MaxRowOnlyEmptyGivesUp(status, clicked, reads, data_busca, trecho_str, data_voo) ==
    IF status = "empty" \/ ~clicked THEN MaxSentinel(data_busca, trecho_str, data_voo)
    ELSE MaxOffer(reads, data_busca, trecho_str, data_voo)

\* the values run_one_search hands to append_row: status is the poll's result,
\* clicked click_buy_js's
MaxRow(status, clicked, reads, data_busca, trecho_str, data_voo) ==
    IF status # "buy" \/ ~clicked THEN MaxSentinel(data_busca, trecho_str, data_voo)
    ELSE MaxOffer(reads, data_busca, trecho_str, data_voo)

(***************************************************************************)
(* What the second page (Flip, Max) or the first card (Capo) can show.     *)
(***************************************************************************)
Txt1030 == <<"1", "0", ":", "3", "0">>
Txt1200 == <<"1", "2", ":", "0", "0">>
TxtDate1030 ==
    <<"0", "1", "/", "0", "1", "/", "2", "0", "2", "6", " ", "1", "0", ":", "3", "0">>
TxtR450 == <<"R", "$", " ", "4", "5", "0", ",", "0", "0">>
TxtR30 == <<"R", "$", " ", "3", "0", ",", "0", "0">>
TxtR480 == <<"R", "$", " ", "4", "8", "0", ",", "0", "0">>
TxtR0 == <<"R", "$", " ", "0", ",", "0", "0">>
TxtGOL == <<"G", "O", "L">>
TxtGOLLinhas ==
    <<"G", "O", "L", " ", "L", "i", "n", "h", "a", "s", " ", "A", "e_acute", "r", "e",
      "a", "s", " ", "S", ".", "A", ".">>
TxtTarifaA == <<"T", "a", "r", "i", "f", "a", " ", "A">>

CapoNoCard ==
    [card |-> FALSE, partida |-> Missing, chegada |-> Missing, tarifa |-> Missing,
     tx_emb |-> Missing, total |-> Missing, cia |-> Missing, inner |-> NoneTxt]

CapoPages ==
    {CapoNoCard} \cup
    {[card |-> TRUE, partida |-> tm[1], chegada |-> tm[2], tarifa |-> mo[1],
      tx_emb |-> mo[2], total |-> mo[3], cia |-> ci, inner |-> inn] :
        tm \in {<<Missing, Missing>>, <<Elem(Txt1030), Elem(Txt1200)>>,
                <<Elem(Txt1030), Missing>>},
        mo \in {<<Missing, Missing, Missing>>,
                <<Elem(TxtR450), Elem(TxtR30), Elem(TxtR480)>>,
                <<Missing, Missing, Elem(TxtR480)>>,
                <<Missing, Elem(TxtR30), Missing>>,
                <<Missing, Missing, ElemInner(TxtR480)>>},
        ci \in {Missing, Elem(TxtGOL)},
        inn \in {NoneTxt, <<>>, TxtCard}}

\* what the tries of one wait_text_retry find
Never(n) == [k \in 1..n |-> NoneTxt]
AtOnce(t, n) == [k \in 1..n |-> IF k = 1 THEN t ELSE NoneTxt]
AtLast(t, n) == [k \in 1..n |-> IF k = n THEN t ELSE IF k = 1 THEN <<>> ELSE NoneTxt]

FlipPages ==
    {[partida |-> pa, chegada |-> ch, tarifa |-> mo[1], taxa |-> mo[2], cia |-> ci] :
        pa \in {Never(3), AtOnce(Txt1030, 3), AtLast(TxtDate1030, 3)},
        ch \in {Never(3), AtOnce(Txt1200, 3)},
        mo \in {<<Never(3), Never(3)>>, <<AtOnce(TxtR450, 3), AtOnce(TxtR30, 3)>>,
                <<AtLast(TxtR450, 3), Never(3)>>, <<AtOnce(TxtR0, 3), Never(3)>>,
                <<Never(3), AtOnce(TxtR30, 3)>>},
        ci \in {Never(2), AtOnce(TxtGOL, 2), AtLast(TxtGOLLinhas, 2)}}

MaxPages ==
    {[hr_ida |-> tm[1], hr_volta |-> tm[2], tarifa_g |-> mo[1], total_j |-> mo[2],
      tx_emb |-> mo[3], tx_emis |-> mo[4], desc |-> mo[5], cia |-> ci, tipo |-> tp] :
        tm \in {<<NoneTxt, NoneTxt>>, <<Txt1030, Txt1200>>, <<Txt1030, <<>>>>},
        mo \in {<<NoneTxt, Never(2), Never(2), Never(2), Never(2)>>,
                <<TxtR450, AtOnce(TxtR480, 2), AtOnce(TxtR30, 2), Never(2), Never(2)>>,
                <<NoneTxt, AtLast(TxtR480, 2), Never(2), Never(2), Never(2)>>,
                <<TxtR450, Never(2), Never(2), AtLast(TxtR0, 2), AtOnce(TxtR0, 2)>>},
        ci \in {NoneTxt, TxtGOL, TxtGOLLinhas},
        tp \in {Never(2), AtOnce(TxtTarifaA, 2)}}

\* the texts of an extraction that did not take place
EmptyShown(site) ==
    IF site = "Capo" THEN CapoExtract(CapoNoCard)
    ELSE IF site = "Flip"
    THEN FlipExtract([partida |-> Never(3), chegada |-> Never(3), tarifa |-> Never(3),
                      taxa |-> Never(3), cia |-> Never(2)])
    ELSE MaxExtract([hr_ida |-> NoneTxt, hr_volta |-> NoneTxt, tarifa_g |-> NoneTxt,
                     total_j |-> Never(2), tx_emb |-> Never(2), tx_emis |-> Never(2),
                     desc |-> Never(2), cia |-> NoneTxt, tipo |-> Never(2)])

(***************************************************************************)
(* The sink.  What is at the path: nothing ("absent"), a file without the  *)
(* [Content_Types].xml entry ("corrupt"), a package that has the entry but *)
(* is no workbook ("foreign"), or a workbook ("xlsx"): its sheets in       *)
(* order, each with a title, its rows and whether the column widths were   *)
(* set.  A row is the list of its cells; a cell has a value, a number      *)
(* format and an alignment.  The value of a header cell is <<name>>.       *)
(***************************************************************************)
MaxDataRows == 3

NoFile(kind) == [kind |-> kind, sheets |-> <<>>]

HeaderCell(h) == [v |-> <<h>>, nf |-> "General", al |-> "center"]

\* ws.append(HEADERS) and the alignment of the cells of row 1
HeaderRow(site) == [k \in 1..Len(HEADERS(site)) |-> HeaderCell(HEADERS(site)[k])]

\* the values of the cells of a row
Values(row) == [k \in 1..Len(row) |-> row[k].v]

\* _is_valid_xlsx(path)
_is_valid_xlsx(f) == f.kind \in {"xlsx", "foreign"}

\* a new workbook whose sheet is left without the header
NewWorkbookWithoutHeader(site) ==
    [kind |-> "xlsx",
     sheets |-> <<[name |-> SHEET_NAME(site), rows |-> <<>>, widths |-> TRUE]>>]

\* _create_new_workbook(path)
_create_new_workbook(site) ==
    [kind |-> "xlsx",
     sheets |-> <<[name |-> SHEET_NAME(site), rows |-> <<HeaderRow(site)>>,
                   widths |-> TRUE]>>]

\* wb.sheetnames
SheetNames(f) == {f.sheets[k].name : k \in 1..Len(f.sheets)}

\* the position of wb[name]
SheetAt(f, name) == CHOOSE k \in 1..Len(f.sheets) : f.sheets[k].name = name

\* an ensure_workbook that appends the header to the sheet it finds
EnsureAppendsHeaderAgain(site, f) ==
    IF f.kind = "absent" \/ ~_is_valid_xlsx(f)
    THEN [file |-> _create_new_workbook(site), raised |-> FALSE]
    ELSE IF f.kind = "foreign" THEN [file |-> f, raised |-> TRUE]
    ELSE IF SHEET_NAME(site) \notin SheetNames(f)
    THEN [file |-> [f EXCEPT !.sheets =
                       Append(@, [name |-> SHEET_NAME(site),
                                  rows |-> <<HeaderRow(site)>>, widths |-> FALSE])],
          raised |-> FALSE]
    ELSE [file |-> [f EXCEPT !.sheets[SheetAt(f, SHEET_NAME(site))].rows =
                       Append(@, HeaderRow(site))],
          raised |-> FALSE]

\* ensure_workbook(path): the file it leaves and whether it raised
ensure_workbook(site, f) ==
    IF f.kind = "absent" \/ ~_is_valid_xlsx(f)
    THEN [file |-> _create_new_workbook(site), raised |-> FALSE]
    ELSE IF f.kind = "foreign"
    THEN \* load_workbook raises
         [file |-> f, raised |-> TRUE]
    ELSE IF SHEET_NAME(site) \notin SheetNames(f)
    THEN [file |-> [f EXCEPT !.sheets =
                       Append(@, [name |-> SHEET_NAME(site),
                                  rows |-> <<HeaderRow(site)>>, widths |-> FALSE])],
          raised |-> FALSE]
    ELSE [file |-> f, raised |-> FALSE]

\* Capo and Flip giving the formats by position, as Max's table has them
FmtOfByPosition(site, k) ==
    IF k \in {1, 4} THEN "DD/MM/YYYY"
    ELSE IF k \in {2, 5, 6} THEN "HH:MM:SS"
    ELSE IF k \in 7..12 THEN "#,##0.00"
    ELSE "General"

\* the number format append_row gives the cells of a column
FmtOf(site, k) ==
    IF site = "Max"
    THEN (IF k \in {1, 4} THEN "DD/MM/YYYY"
          ELSE IF k \in {2, 5, 6} THEN "HH:MM:SS"
          ELSE IF k \in 7..12 THEN "#,##0.00"
          ELSE "General")
    ELSE LET h == HEADERS(site)[k]
         IN  IF h \in {"DATA DA BUSCA", "DATA PARTIDA", "DATA CHEGADA"} THEN "DD/MM/YYYY"
             ELSE IF h \in {"HORA DA BUSCA", "HORA DA PARTIDA", "HORA DA CHEGADA"}
             THEN "HH:MM:SS"
             ELSE IF h \in {"TARIFA", "TX DE EMBARQUE", "TOTAL"} THEN "#,##0.00"
             ELSE "General"

\* the cells of the row append_row writes
DataRow(site, list) ==
    [k \in 1..Len(list) |->
        [v |-> list[k],
         nf |-> IF k <= Len(HEADERS(site)) /\ list[k] # NoneVal
                THEN FmtOf(site, k) ELSE "General",
         al |-> IF k <= Len(HEADERS(site)) THEN "center" ELSE "general"]]

\* ws.max_row == 1 and all((c.value is None for c in ws[1]))
FirstRowBlank(rows) ==
    \/ rows = <<>>
    \/ Len(rows) = 1 /\ \A k \in 1..Len(rows[1]) : rows[1][k].v = NoneVal

\* an append_row that writes the header whenever the sheet has one row
AppendRowHeaderOnOneRow(site, f, row_values, below_blank) ==
    LET e == ensure_workbook(site, f) IN
    IF e.raised THEN e
    ELSE LET k == SheetAt(e.file, SHEET_NAME(site))
             rows == e.file.sheets[k].rows
             withHeader == IF site # "Max" /\ Len(rows) <= 1
                           THEN Append(rows, HeaderRow(site)) ELSE rows
         IN  [file |-> [e.file EXCEPT !.sheets[k].rows =
                           Append(withHeader, DataRow(site, RowList(site, row_values)))],
              raised |-> FALSE]

\* append_row(path, row_values): the file it leaves and whether it raised.
\* On a sheet without cells ws[1] makes the cells of row 1 before the header
\* is appended: the header goes to row 1 or under a blank row 1, as the
\* library has it (below_blank).
append_row(site, f, row_values, below_blank) ==
    LET e == ensure_workbook(site, f) IN
    IF e.raised THEN e
    ELSE LET k == SheetAt(e.file, SHEET_NAME(site))
             rows == e.file.sheets[k].rows
             blank == [v |-> NoneVal, nf |-> "General", al |-> "general"]
             withHeader ==
                 IF site # "Max" /\ FirstRowBlank(rows)
                 THEN (IF rows = <<>> /\ ~below_blank THEN <<HeaderRow(site)>>
                       ELSE IF rows = <<>> THEN <<<<blank>>, HeaderRow(site)>>
                       ELSE Append(rows, HeaderRow(site)))
                 ELSE rows
         IN  [file |-> [e.file EXCEPT !.sheets[k].rows =
                           Append(withHeader, DataRow(site, RowList(site, row_values)))],
              raised |-> FALSE]

(***************************************************************************)
(* The orchestrator: main, ciclo and one search per (route, ADVP).         *)
(*                                                                         *)
(* caller = "main": the searches are the calls ciclo makes.  Capo's ciclo  *)
(* hands processar_trecho_advp the tuple of TRECHOS; caller = "direct" is  *)
(* processar_trecho_advp called with the "ORIG-DEST" text its signature    *)
(* asks for, for the same combinations in the same order.                  *)
(* Time is counted in half seconds; a day is a number of midnights since   *)
(* the program started on BaseDate.                                        *)
(***************************************************************************)
MaxCycles == 2

BaseDate == <<2025, 12, 31>>
DateOn(day) == AddDays(BaseDate, day)

VARIABLES
    site,       \* which scraper runs
    caller,     \* "main" or "direct"
    once,       \* --once given
    pc,         \* "start", "idle", "poll", "polled", "returned", "cycle_end", "done"
    cycle,      \* cycles begun
    ti, ai,     \* position of the loops over TRECHOS and ADVP_LIST
    begun,      \* searches begun in this cycle
    today,      \* midnights passed since the start
    startDay,   \* the day the search began
    elapsed,    \* time.time() - start of the poll
    status,     \* what the poll returned
    tickObs,    \* what the last pass of the poll saw
    iter,       \* the search begun last: its combination and how it ended
    lastRow,    \* the row it appended, <<>> when none
    shown,      \* the texts it extracted
    lastLog,    \* the failure it logged, <<>> when none
    driver,     \* the browser: its windows, the window the commands go to,
                \* main's base_tab, the calls of quit()
    slept,      \* the seconds main slept before the cycle under way
    file,       \* what is at the path of the workbook
    prevFile,   \* what was there before the last operation on it
    lastOp,     \* the last operation on the path: "none", "ensure", "append", "other"
    prevOp,     \* the operation before it
    opRaised,   \* whether the last operation raised
    calls,      \* history: whether the path was fresh (nothing there) when the
                \* calls began, and the lists append_row has appended since
    arg,        \* the text a normalizer is called with (NoneTxt: None)
    cents,      \* the amount in cents arg was written from, -1 when from none
    fn,         \* the normalizer called last, "none" before the first call
    ret,        \* what it returned, or that it raised
    card,       \* the first card of Capo's result page, as the lookups find it
    book,       \* a workbook in the dashboard's data folder: its name, the
                \* scraper that wrote it, the rows appended to it
    frame,      \* the rows of df_all, <<>> before the folder is read
    loaded,     \* whether the dashboard has read the folder
    tab,        \* the tab rendered last, "none" before
    agg,        \* "min" or "mean": the toggle of that tab
    table       \* the rows of the Top-3 table of that tab

mainVars == <<site, caller, once, pc, cycle, ti, ai, begun, today, startDay, elapsed,
              status, tickObs, iter, lastRow, shown, lastLog, driver, slept>>
sinkVars == <<file, prevFile, lastOp, prevOp, opRaised, calls>>
normVars == <<arg, cents, fn, ret, card>>
dashVars == <<book, frame, loaded, tab, agg, table>>
vars == <<mainVars, sinkVars, normVars, dashVars>>

\* window handles: the tab the browser starts with, the tabs a click opens
BaseHandle == <<"base", 0>>
NoHandle == <<"none", 0>>

\* the detail tabs that may be open at once
MaxDetailTabs == 2
DetailHandles == [k \in 1..MaxDetailTabs |-> <<"tab", k>>]

NoObs == [txt |-> NoneTxt, buy |-> FALSE, seen |-> FALSE]
NoRow == <<>>
NoLog == <<>>
NoIter ==
    [combo |-> <<0, 0>>, ended |-> FALSE, rows |-> 0, raised |-> FALSE,
     err |-> "none", extracted |-> FALSE, switched |-> FALSE, clicked |-> FALSE,
     navIn |-> NoHandle, opened |-> NoHandle]

\* the browser before setup_driver
NoDriver ==
    [started |-> FALSE, quits |-> 0, window_handles |-> <<>>, current |-> NoHandle,
     base_tab |-> NoHandle]

\* the sink before any operation on a path where there is nothing
SinkIdle ==
    /\ file = NoFile("absent")
    /\ prevFile = NoFile("absent")
    /\ lastOp = "none" /\ prevOp = "none"
    /\ opRaised = FALSE
    /\ calls = [fresh |-> TRUE, lists |-> <<>>]

NoRet == [raised |-> FALSE, value |-> NoneVal, fallback |-> NoneVal]

NormIdle ==
    /\ arg = NoneTxt
    /\ cents = -1
    /\ fn = "none"
    /\ ret = NoRet
    /\ card = CapoNoCard

\* no workbook in the data folder, the dashboard not started
NoBook == [name |-> <<>>, rows |-> <<>>]

DashIdle ==
    /\ book = NoBook
    /\ frame = <<>>
    /\ loaded = FALSE
    /\ tab = "none"
    /\ agg = "min"
    /\ table = <<>>

Init ==
    /\ site \in Sites
    /\ caller \in (IF site = "Capo" THEN {"main", "direct"} ELSE {"main"})
    /\ once \in BOOLEAN
    /\ SinkIdle
    /\ NormIdle
    /\ DashIdle
    /\ pc = "start"
    /\ cycle = 0
    /\ ti = 1 /\ ai = 1 /\ begun = 0
    /\ today = 0 /\ startDay = 0
    /\ elapsed = 0
    /\ status = "unset"
    /\ tickObs = NoObs
    /\ iter = NoIter
    /\ lastRow = NoRow
    /\ shown = EmptyShown(site)
    /\ lastLog = NoLog
    /\ driver = NoDriver
    /\ slept = 0

\* trecho_str inside the search
TrechoArg == TrechoStr(TRECHOS[iter.combo[1]])

\* data_voo = (now + timedelta(days=advp)).date(), now read when the search begins
DataVoo == AddDays(DateOn(startDay), ADVP_LIST[iter.combo[2]])

\* logging.exception("Falha em ... ADVP %d: ...")
LogOf(t, a) == <<TrechoStr(TRECHOS[t]), ADVP_LIST[a]>>

\* setup_driver(): a browser with one window, and main's base_tab
setup_driver ==
    [started |-> TRUE, quits |-> 0, window_handles |-> <<BaseHandle>>,
     current |-> BaseHandle, base_tab |-> BaseHandle]

IsOpen(d, h) == \E k \in 1..Len(d.window_handles) : d.window_handles[k] = h

\* the handle of the tab a click opens
NewHandle(d) ==
    DetailHandles[CHOOSE k \in 1..MaxDetailTabs :
                      /\ ~IsOpen(d, DetailHandles[k])
                      /\ \A j \in 1..(k - 1) : IsOpen(d, DetailHandles[j])]

\* driver.switch_to.window(h) of an open window
SwitchTo(d, h) == [d EXCEPT !.current = h]

\* the click opened a tab and driver.switch_to.window(new_handle[-1])
OpenDetail(d) ==
    [d EXCEPT !.window_handles = Append(@, NewHandle(d)), !.current = NewHandle(d)]

\* driver.close(): the window the commands go to is closed
CloseCurrent(d) ==
    [d EXCEPT !.window_handles = SelectSeq(@, LAMBDA h : h # d.current)]

\* the first lines of Capo's and Flip's search: try: switch_to.window(base_tab),
\* except: base_tab = driver.current_window_handle.  Max has no such lines.
AtBase(s, d) ==
    IF s = "Max" THEN d
    ELSE IF IsOpen(d, d.base_tab) THEN SwitchTo(d, d.base_tab)
    ELSE [d EXCEPT !.base_tab = d.current]

\* the last lines of Flip's search after driver.close(): back to base_tab, or
\* to window_handles[0], which becomes base_tab
FlipRestore(d) ==
    IF IsOpen(d, d.base_tab) THEN SwitchTo(d, d.base_tab)
    ELSE [d EXCEPT !.current = d.window_handles[1], !.base_tab = d.window_handles[1]]

\* the last lines of Max's search after driver.close(): window_handles[0]
MaxRestore(d) == SwitchTo(d, d.window_handles[1])

\* the windows after the part of a search that follows the click: outcome is
\* "raised" (an exception after the switch, nothing is closed), "restore"
\* (closed, but no window could be switched to) or "returned"
TabsAfter(s, d, switched, outcome) ==
    IF ~switched THEN d
    ELSE IF outcome = "raised" THEN OpenDetail(d)
    ELSE IF outcome = "restore" THEN CloseCurrent(OpenDetail(d))
    ELSE IF s = "Flip" THEN FlipRestore(CloseCurrent(OpenDetail(d)))
    ELSE MaxRestore(CloseCurrent(OpenDetail(d)))

\* main up to the first ciclo(): ensure_workbook (Capo, Max), setup_driver,
\* base_tab = driver.current_window_handle, which is before the try and may
\* raise as any command of the browser may
MainStart ==
    /\ UNCHANGED <<sinkVars, normVars, dashVars>>
    /\ pc = "start"
    /\ driver' = setup_driver
    /\ \E handle_raises \in BOOLEAN :
          IF handle_raises THEN pc' = "failed" /\ cycle' = cycle
          ELSE pc' = "idle" /\ cycle' = 1
    /\ UNCHANGED <<site, caller, once, ti, ai, begun, today, startDay, elapsed, status,
                   tickObs, iter, lastRow, shown, lastLog, slept>>

\* the two for loops move on to the next combination
LoopStep ==
    /\ ai' = IF ai < Len(ADVP_LIST) THEN ai + 1
             ELSE IF ti < Len(TRECHOS) THEN 1 ELSE ai
    /\ ti' = IF ai < Len(ADVP_LIST) THEN ti
             ELSE IF ti < Len(TRECHOS) THEN ti + 1 ELSE ti
    /\ pc' = IF ai = Len(ADVP_LIST) /\ ti = Len(TRECHOS) THEN "cycle_end" ELSE "idle"

\* the search returns (raised = FALSE) or its exception reaches ciclo's
\* except, which logs it; err tells what raised: the browser ("browser"), the
\* file ("file"), the program itself ("program")
EndSearch(rows, raised, err, extracted, switched, row, texts, clicked) ==
    /\ iter' = [combo |-> iter.combo, ended |-> TRUE, rows |-> rows, raised |-> raised,
                err |-> err, extracted |-> extracted,
                switched |-> switched, clicked |-> clicked,
                navIn |-> iter.navIn,
                opened |-> IF switched THEN NewHandle(driver) ELSE NoHandle]
    /\ lastRow' = row
    /\ shown' = texts
    /\ lastLog' = IF raised THEN LogOf(iter.combo[1], iter.combo[2]) ELSE NoLog
    /\ LoopStep

\* the search begins: now, data_voo, the URL, the base tab (Capo, Flip), the
\* navigation in the window the commands go to
Begin ==
    /\ UNCHANGED <<sinkVars, normVars, dashVars, slept>>
    /\ pc = "idle"
    /\ begun' = begun + 1
    /\ startDay' = today
    /\ elapsed' = 0
    /\ status' = "unset"
    /\ tickObs' = NoObs
    /\ \E nav_raises \in BOOLEAN :
        IF site = "Capo" /\ caller = "main"
        THEN \* build_url: a tuple has no split
             /\ ~nav_raises
             /\ iter' = [NoIter EXCEPT !.combo = <<ti, ai>>, !.ended = TRUE,
                                       !.raised = TRUE, !.err = "program"]
             /\ lastRow' = NoRow
             /\ shown' = EmptyShown(site)
             /\ lastLog' = LogOf(ti, ai)
             /\ driver' = driver
             /\ LoopStep
        ELSE IF nav_raises
        THEN /\ iter' = [NoIter EXCEPT !.combo = <<ti, ai>>, !.ended = TRUE,
                                       !.raised = TRUE, !.err = "browser"]
             /\ lastRow' = NoRow
             /\ shown' = EmptyShown(site)
             /\ lastLog' = LogOf(ti, ai)
             /\ driver' = AtBase(site, driver)
             /\ LoopStep
        ELSE /\ iter' = [NoIter EXCEPT !.combo = <<ti, ai>>,
                                       !.navIn = AtBase(site, driver).current]
             /\ driver' = AtBase(site, driver)
             /\ lastRow' = NoRow
             /\ shown' = EmptyShown(site)
             /\ lastLog' = NoLog
             /\ pc' = "poll"
             /\ UNCHANGED <<ti, ai>>
    /\ UNCHANGED <<site, caller, once, cycle, today>>

\* while time.time() - start < max_wait
LoopContinues(t, max_wait) == t < max_wait

\* one pass of the poll
PollTick ==
    /\ UNCHANGED <<sinkVars, normVars, dashVars, driver, slept>>
    /\ pc = "poll"
    /\ LoopContinues(elapsed, MaxWaitOf(EsperaSec))
    /\ \E obs \in TickObs(site) :
        LET r == Tick(site, obs) IN
        /\ elapsed' = elapsed + r.dur
        /\ tickObs' = [txt |-> obs.txt, buy |-> obs.buy1 \/ obs.buy2, seen |-> TRUE]
        /\ IF r.res = "continue"
           THEN UNCHANGED <<pc, status, ti, ai, iter, lastRow, shown, lastLog>>
           ELSE IF r.res = "raise"
           THEN /\ status' = status
                /\ EndSearch(0, TRUE, "browser", FALSE, FALSE, NoRow, EmptyShown(site), FALSE)
           ELSE /\ pc' = "polled"
                /\ status' = r.res
                /\ UNCHANGED <<ti, ai, iter, lastRow, shown, lastLog>>
    /\ UNCHANGED <<site, caller, once, cycle, begun, today, startDay>>

\* the poll runs out of time
PollTimeout ==
    /\ UNCHANGED <<sinkVars, normVars, dashVars, driver, slept>>
    /\ pc = "poll"
    /\ ~LoopContinues(elapsed, MaxWaitOf(EsperaSec))
    /\ pc' = "polled"
    /\ status' = TimeoutStatus(site)
    /\ UNCHANGED <<site, caller, once, cycle, ti, ai, begun, today, startDay, elapsed,
                   tickObs, iter, lastRow, shown, lastLog>>

\* the poll function hands its result to the search; its clock is gone
PollReturn ==
    /\ UNCHANGED <<sinkVars, normVars, dashVars, driver, slept>>
    /\ pc = "polled"
    /\ pc' = "returned"
    /\ elapsed' = 0
    /\ tickObs' = NoObs
    /\ UNCHANGED <<site, caller, once, cycle, ti, ai, begun, today, startDay, status,
                   iter, lastRow, shown, lastLog>>

\* a search that goes on to the detail fields after a timeout of the poll
ReachesExtractionOnTimeout(s, st, clicked) ==
    IF s = "Capo" THEN st # "none"
    ELSE st # NoOffersStatus(s) /\ clicked

\* the search goes past its early returns to the locators of the detail
\* fields: Capo "if not ok", Flip "if status in ("no_flights", "timeout")",
\* Max "if status != "buy"", then Flip's and Max's "if not click"
ReachesExtraction(s, st, clicked) ==
    IF s = "Capo" THEN st = "ok"
    ELSE IF s = "Flip" THEN st \notin {"no_flights", "timeout"} /\ clicked
    ELSE ~(st # "buy") /\ clicked

\* time.sleep(300) between two cycles
CycleSleep == 300

\* Flip running ciclo() again although --once was given
NextCycleWithOnce ==
    /\ UNCHANGED <<sinkVars, normVars, dashVars, driver>>
    /\ slept' = CycleSleep
    /\ pc = "cycle_end"
    /\ site = "Flip"
    /\ cycle < MaxCycles
    /\ cycle' = cycle + 1
    /\ pc' = "idle"
    /\ ti' = 1 /\ ai' = 1 /\ begun' = 0
    /\ UNCHANGED <<site, caller, once, today, startDay, elapsed, status, tickObs, iter,
                   lastRow, shown, lastLog>>

\* what can go wrong in the browser or the file once the poll has returned
CapoFaults == {"none", "card", "append"}
FlipFaults == {"none", "handles", "click", "switch", "extract", "append", "restore"}
MaxFaults == {"none", "handles", "switch", "extract", "append"}

\* Capo, after wait_results_ready: the card, the row, append_row
CapoFinish ==
    /\ UNCHANGED <<sinkVars, normVars, dashVars, driver, slept>>
    /\ pc = "returned" /\ site = "Capo"
    /\ \E fault \in CapoFaults,
          reads \in (IF status = "ok" THEN CapoPages ELSE {CapoNoCard}) :
        LET ok == ReachesExtraction(site, status, TRUE)
            extracted == ok /\ reads.card
        IN  IF fault = "append" \/ (fault = "card" /\ ok)
            THEN /\ fault = "append" => reads = CapoNoCard
                 /\ EndSearch(0, TRUE, IF fault = "append" THEN "file" ELSE "browser",
                              FALSE, FALSE, NoRow, EmptyShown(site), FALSE)
            ELSE /\ fault = "none"
                 /\ EndSearch(1, FALSE, "none", extracted, FALSE,
                        RowList(site, CapoRow(ok, reads, DateOn(today), TrechoArg, DataVoo)),
                        IF extracted THEN CapoExtract(reads) ELSE EmptyShown(site), FALSE)
    /\ UNCHANGED <<site, caller, once, cycle, begun, today, startDay, elapsed, status,
                   tickObs>>

\* Flip, after the poll: the click, the new tab, the second page, the row,
\* append_row, back to the base tab
FlipFinish ==
    /\ UNCHANGED <<sinkVars, normVars, dashVars, slept>>
    /\ pc = "returned" /\ site = "Flip"
    /\ \E fault \in FlipFaults, clicked \in BOOLEAN, switched \in BOOLEAN,
          reads \in (IF status = "buy_ready" THEN FlipPages ELSE {CHOOSE r \in FlipPages : TRUE}) :
        LET extracted == ReachesExtraction(site, status, clicked)
            sentinel == ~extracted
            did == extracted /\ fault \notin {"handles", "click"}
            raises == \/ fault = "append"
                      \/ (fault = "handles" /\ status = "buy_ready")
                      \/ (fault = "click" /\ status = "buy_ready")
                      \/ (fault \in {"switch", "extract"} /\ extracted)
        IN  /\ status # "buy_ready" => (clicked /\ ~switched)
            /\ ~clicked => ~switched
            /\ switched => Len(driver.window_handles) <= MaxDetailTabs
            /\ driver' = TabsAfter(site, driver, switched,
                              IF raises THEN "raised"
                              ELSE IF fault = "restore" THEN "restore" ELSE "returned")
            /\ IF raises
               THEN /\ reads = (CHOOSE r \in FlipPages : TRUE)
                    /\ fault \in {"handles", "click"} => (clicked /\ ~switched)
                    /\ fault = "switch" => ~switched
                    /\ EndSearch(0, TRUE, IF fault = "append" THEN "file" ELSE "browser",
                                 fault \in {"extract", "append"} /\ extracted, switched,
                                 NoRow, EmptyShown(site), did)
               ELSE IF fault = "restore" /\ extracted /\ switched
               THEN \* neither base_tab nor window_handles[0] can be switched to
                    EndSearch(1, TRUE, "browser", extracted, switched,
                        RowList(site,
                            FlipRow(status, clicked, reads, DateOn(today), TrechoArg, DataVoo)),
                        FlipExtract(reads), did)
               ELSE /\ fault = "none"
                    /\ EndSearch(1, FALSE, "none", extracted, switched,
                        RowList(site,
                            FlipRow(status, clicked, reads, DateOn(today), TrechoArg, DataVoo)),
                        IF extracted THEN FlipExtract(reads) ELSE EmptyShown(site), did)
    /\ UNCHANGED <<site, caller, once, cycle, begun, today, startDay, elapsed, status,
                   tickObs>>

\* Max, after the poll: the click, the new tab, the second page, the row,
\* append_row, back to the first tab
MaxFinish ==
    /\ UNCHANGED <<sinkVars, normVars, dashVars, slept>>
    /\ pc = "returned" /\ site = "Max"
    /\ \E fault \in MaxFaults, clicked \in BOOLEAN, switched \in BOOLEAN,
          reads \in (IF status = "buy" THEN MaxPages ELSE {CHOOSE r \in MaxPages : TRUE}) :
        LET extracted == ReachesExtraction(site, status, clicked)
            sentinel == ~extracted
            did == extracted /\ fault \notin {"handles", "click"}
            raises == \/ fault = "append"
                      \/ (fault = "handles" /\ status = "buy")
                      \/ (fault \in {"switch", "extract"} /\ extracted)
        IN  /\ status # "buy" => (clicked /\ ~switched)
            /\ ~clicked => ~switched
            /\ switched => Len(driver.window_handles) <= MaxDetailTabs
            /\ driver' = TabsAfter(site, driver, switched,
                              IF raises THEN "raised" ELSE "returned")
            /\ IF raises
               THEN /\ reads = (CHOOSE r \in MaxPages : TRUE)
                    /\ fault = "handles" => (clicked /\ ~switched)
                    /\ fault = "switch" => ~switched
                    /\ EndSearch(0, TRUE, IF fault = "append" THEN "file" ELSE "browser",
                                 fault \in {"extract", "append"} /\ extracted, switched,
                                 NoRow, EmptyShown(site), did)
               ELSE /\ fault = "none"
                    /\ EndSearch(1, FALSE, "none", extracted, switched,
                        RowList(site,
                            MaxRow(status, clicked, reads, DateOn(startDay), TrechoArg, DataVoo)),
                        IF extracted THEN MaxExtract(reads) ELSE EmptyShown(site), did)
    /\ UNCHANGED <<site, caller, once, cycle, begun, today, startDay, elapsed, status,
                   tickObs>>

\* the calendar day changes while a search is under way
Midnight ==
    /\ UNCHANGED <<sinkVars, normVars, dashVars, driver, slept>>
    /\ pc = "poll"
    /\ today < MaxMidnights
    /\ today' = today + 1
    /\ UNCHANGED <<site, caller, once, pc, cycle, ti, ai, begun, startDay, elapsed,
                   status, tickObs, iter, lastRow, shown, lastLog>>

\* Flip without --once: while True: ciclo(); sleep(300)
NextCycle ==
    /\ UNCHANGED <<sinkVars, normVars, dashVars, driver>>
    /\ slept' = CycleSleep
    /\ pc = "cycle_end"
    /\ site = "Flip" /\ ~once
    /\ cycle < MaxCycles
    /\ cycle' = cycle + 1
    /\ pc' = "idle"
    /\ ti' = 1 /\ ai' = 1 /\ begun' = 0
    /\ UNCHANGED <<site, caller, once, today, startDay, elapsed, status, tickObs, iter,
                   lastRow, shown, lastLog>>

\* main ending after the first cycle whether --once was given or not
QuitWithoutOnce ==
    /\ UNCHANGED <<sinkVars, normVars, dashVars, slept>>
    /\ driver' = [driver EXCEPT !.quits = @ + 1]
    /\ pc = "cycle_end"
    /\ pc' = "done"
    /\ UNCHANGED <<site, caller, once, cycle, ti, ai, begun, today, startDay, elapsed,
                   status, tickObs, iter, lastRow, shown, lastLog>>

\* ciclo() was the only cycle: finally: driver.quit()
Quit ==
    /\ UNCHANGED <<sinkVars, normVars, dashVars, slept>>
    /\ driver' = [driver EXCEPT !.quits = @ + 1]
    /\ pc = "cycle_end"
    /\ site # "Flip" \/ once
    /\ pc' = "done"
    /\ UNCHANGED <<site, caller, once, cycle, ti, ai, begun, today, startDay, elapsed,
                   status, tickObs, iter, lastRow, shown, lastLog>>

Next ==
    \/ MainStart
    \/ Begin
    \/ PollTick
    \/ PollTimeout
    \/ PollReturn
    \/ CapoFinish
    \/ FlipFinish
    \/ MaxFinish
    \/ Midnight
    \/ NextCycle
    \/ Quit

Spec == Init /\ [][Next]_vars

\* main is one sequential program: when time.sleep(300) has returned, the
\* while True goes on to the next ciclo()
SpecLive == Spec /\ WF_vars(NextCycle)

(***************************************************************************)
(* The sink on its own: ensure_workbook and append_row called on a path    *)
(* that holds anything a path can hold, and whatever else rewrites the     *)
(* path between two calls.                                                 *)
(***************************************************************************)
OtherSheet == [name |-> "Sheet", rows |-> <<>>, widths |-> FALSE]

\* the row_values of a search without offers and of one with an offer
NoOfferValues(s) ==
    IF s = "Capo"
    THEN CapoSentinel(BaseDate, TrechoStr(TRECHOS[1]), AddDays(BaseDate, 1))
    ELSE IF s = "Flip" THEN FlipSentinel(BaseDate, TrechoStr(TRECHOS[1]))
    ELSE MaxSentinel(BaseDate, TrechoStr(TRECHOS[1]), AddDays(BaseDate, 1))

OfferValues(s) ==
    IF s = "Capo"
    THEN CapoRow(TRUE,
                 [card |-> TRUE, partida |-> Elem(Txt1030), chegada |-> Elem(Txt1200),
                  tarifa |-> Elem(TxtR450), tx_emb |-> Elem(TxtR30),
                  total |-> Elem(TxtR480), cia |-> Elem(TxtGOL), inner |-> TxtCard],
                 BaseDate, TrechoStr(TRECHOS[1]), AddDays(BaseDate, 1))
    ELSE IF s = "Flip"
    THEN FlipRow("buy_ready", TRUE,
                 [partida |-> AtOnce(Txt1030, 3), chegada |-> AtOnce(Txt1200, 3),
                  tarifa |-> AtOnce(TxtR450, 3), taxa |-> AtOnce(TxtR30, 3),
                  cia |-> AtOnce(TxtGOL, 2)],
                 BaseDate, TrechoStr(TRECHOS[1]), AddDays(BaseDate, 1))
    ELSE MaxRow("buy", TRUE,
                [hr_ida |-> Txt1030, hr_volta |-> Txt1200, tarifa_g |-> TxtR450,
                 total_j |-> AtOnce(TxtR480, 2), tx_emb |-> AtOnce(TxtR30, 2),
                 tx_emis |-> Never(2), desc |-> Never(2), cia |-> TxtGOL,
                 tipo |-> AtOnce(TxtTarifaA, 2)],
                BaseDate, TrechoStr(TRECHOS[1]), AddDays(BaseDate, 1))

\* rows a search hands to append_row
SampleRows(s) == {NoOfferValues(s), OfferValues(s)}

\* what a path can hold before the program touches it
StartFiles(s) ==
    {NoFile("absent"), NoFile("corrupt"), NoFile("foreign"),
     _create_new_workbook(s),
     [kind |-> "xlsx", sheets |-> <<OtherSheet>>]}
    \cup
    {[kind |-> "xlsx", sheets |-> sh] :
        sh \in UNION {
            {<<OtherSheet, [name |-> SHEET_NAME(s), rows |-> <<HeaderRow(s), data>>,
                            widths |-> FALSE]>>,
             <<[name |-> SHEET_NAME(s), rows |-> <<>>, widths |-> FALSE]>>,
             <<[name |-> SHEET_NAME(s), rows |-> <<data>>, widths |-> FALSE]>>}
            : data \in {DataRow(s, list) : list \in {RowList(s, NoOfferValues(s))}}}}

SinkInit ==
    /\ site \in Sites
    /\ caller = "main"
    /\ once = TRUE
    /\ pc = "start"
    /\ cycle = 0
    /\ ti = 1 /\ ai = 1 /\ begun = 0
    /\ today = 0 /\ startDay = 0
    /\ elapsed = 0
    /\ status = "unset"
    /\ tickObs = NoObs
    /\ iter = NoIter
    /\ lastRow = NoRow
    /\ shown = EmptyShown(site)
    /\ lastLog = NoLog
    /\ driver = NoDriver
    /\ slept = 0
    /\ file \in StartFiles(site)
    /\ prevFile = file
    /\ lastOp = "none" /\ prevOp = "none"
    /\ opRaised = FALSE
    /\ calls = [fresh |-> file.kind = "absent", lists |-> <<>>]
    /\ NormIdle
    /\ DashIdle

\* ensure_workbook(path)
EnsureWorkbook ==
    /\ UNCHANGED <<mainVars, normVars, dashVars, calls>>
    /\ LET e == ensure_workbook(site, file) IN
        /\ file' = e.file
        /\ opRaised' = e.raised
    /\ prevFile' = file
    /\ prevOp' = lastOp
    /\ lastOp' = "ensure"

\* the rows of the scraper's sheet, <<>> when the path holds no such sheet
NamedRows(f) ==
    IF f.kind = "xlsx" /\ SHEET_NAME(site) \in SheetNames(f)
    THEN f.sheets[SheetAt(f, SHEET_NAME(site))].rows
    ELSE <<>>

\* append_row(path, row_values)
AppendRow ==
    /\ UNCHANGED <<mainVars, normVars, dashVars>>
    /\ Len(NamedRows(file)) <= MaxDataRows
    /\ \E row_values \in SampleRows(site), below_blank \in BOOLEAN :
        LET e == append_row(site, file, row_values, below_blank) IN
        /\ file' = e.file
        /\ opRaised' = e.raised
        /\ calls' = IF calls.fresh /\ ~e.raised
                    THEN [calls EXCEPT !.lists = Append(@, RowList(site, row_values))]
                    ELSE calls
    /\ prevFile' = file
    /\ prevOp' = lastOp
    /\ lastOp' = "append"

\* something else replaces what is at the path
Replace ==
    /\ UNCHANGED <<mainVars, normVars, dashVars>>
    /\ \E f \in StartFiles(site) :
        /\ f # file
        /\ file' = f
        /\ calls' = [fresh |-> f.kind = "absent", lists |-> <<>>]
    /\ opRaised' = FALSE
    /\ prevFile' = file
    /\ prevOp' = lastOp
    /\ lastOp' = "other"

SinkNext ==
    \/ EnsureWorkbook
    \/ AppendRow
    \/ Replace

SpecSink == SinkInit /\ [][SinkNext]_vars

(***************************************************************************)
(* The normalizers on their own: each called with a text a page can hold   *)
(* or with None.  A call returns a value or raises; an exception raised    *)
(* inside a try is caught when the except clause names it.                 *)
(***************************************************************************)
\* a try whose except clause catches nothing of what is raised
TryWithoutExcept(exc, caught, value) ==
    IF exc = "none" THEN [raised |-> FALSE, value |-> value]
    ELSE [raised |-> TRUE, value |-> NoneVal]

\* try: return value / except caught: return None
TryExcept(exc, caught, value) ==
    IF exc = "none" THEN [raised |-> FALSE, value |-> value]
    ELSE IF exc \in caught THEN [raised |-> FALSE, value |-> NoneVal]
    ELSE [raised |-> TRUE, value |-> NoneVal]

\* what Decimal(s) and float(s) raise on s
DecimalExc(s) == IF IsNumeral(s) THEN "none" ELSE "InvalidOperation"
FloatExc(s) == IF IsNumeral(s) THEN "none" ELSE "ValueError"

\* what dtime(h, m, s) and datetime(y, m, d, h, m, s) raise
TimeExc(t) == IF ValidTime(t) THEN "none" ELSE "ValueError"
DateTimeExc(y, m, d, t) == IF ValidDate(y, m, d) /\ ValidTime(t) THEN "none" ELSE "ValueError"

\* brl_to_decimal(txt) as a call
Call_brl_to_decimal(txt) ==
    IF ~Truthy(txt) THEN [raised |-> FALSE, value |-> NoneVal]
    ELSE TryExcept(DecimalExc(MoneyChars(txt)), {"InvalidOperation", "TypeError"},
                   brl_to_decimal(txt))

\* brl_to_float(s) as a call: except Exception
Call_brl_to_float(txt) ==
    IF ~Truthy(txt) THEN [raised |-> FALSE, value |-> NoneVal]
    ELSE TryExcept(FloatExc(MoneyChars(txt)), {"ValueError", "TypeError", "OverflowError"},
                   brl_to_float(txt))

\* hhmm_to_time(s) as a call
Call_hhmm_to_time(txt) ==
    IF ~Truthy(txt) THEN [raised |-> FALSE, value |-> NoneVal]
    ELSE LET s == Strip(txt)
         IN  IF TimeAt(s, 1) /\ (Len(s) = 5 \/ (Len(s) = 8 /\ SecAt(s, 1)))
             THEN TryExcept(TimeExc(TimeGroups(s, 1)), {"ValueError"}, hhmm_to_time(txt))
             ELSE [raised |-> FALSE, value |-> NoneVal]

\* parse_time_only(txt) as a call
Call_parse_time_only(txt) ==
    IF ~Truthy(txt) THEN [raised |-> FALSE, value |-> NoneVal]
    ELSE LET s == Strip(txt)
             p == FirstTimeAt(s)
         IN  IF p = 0 THEN [raised |-> FALSE, value |-> NoneVal]
             ELSE TryExcept(TimeExc(TimeGroups(s, p)), {"ValueError"}, parse_time_only(txt))

\* parse_datetime_br(txt, fallback_date) as a call
Call_parse_datetime_br(txt, fallback) ==
    IF ~Truthy(txt) THEN [raised |-> FALSE, value |-> NoneVal]
    ELSE LET s == Strip(txt)
             p1 == FirstFullAt(s)
             p2 == FirstShortAt(s)
             p3 == FirstTimeAt(s)
             exc == IF p1 # 0
                    THEN DateTimeExc(DigitsToNat(Slice(s, p1 + 6, p1 + 9)), Num2(s, p1 + 3),
                                     Num2(s, p1),
                                     TimeGroups(s, SpaceRunEnd(s, p1 + 10) + 1))
                    ELSE IF p2 # 0 /\ fallback # NoneVal
                    THEN DateTimeExc(fallback[1], Num2(s, p2 + 3), Num2(s, p2),
                                     TimeGroups(s, SpaceRunEnd(s, p2 + 5) + 1))
                    ELSE IF p3 # 0 /\ fallback # NoneVal
                    THEN TimeExc(TimeGroups(s, p3))
                    ELSE "none"
         IN  TryExcept(exc, {"ValueError"}, parse_datetime_br(txt, fallback))

\* clean_cia_text(txt) and extract_letra_tarifa(txt) as calls: no try in them
Call_clean_cia_text(s, txt) ==
    [raised |-> FALSE,
     value |-> IF s = "Flip" THEN clean_cia_text_flip(txt) ELSE clean_cia_text_max(txt)]

Call_extract_letra_tarifa(txt) == [raised |-> FALSE, value |-> extract_letra_tarifa(txt)]

\* texts of the pages and texts no page should hold
TimeTexts ==
    {<<"1", "0", ":", "3", "0">>,
     <<"1", "0", ":", "3", "0", ":", "1", "5">>,
     <<"2", "3", ":", "5", "9", ":", "5", "9">>,
     <<"0", "0", ":", "0", "0">>,
     <<"2", "4", ":", "0", "0">>,
     <<"1", "0", ":", "6", "0">>,
     <<"1", "0", ":", "3", "0", ":", "6", "0">>,
     <<" ", "1", "0", ":", "3", "0", " ">>,
     <<"1", "1", "0", ":", "3", "0">>,
     <<"1", "0", ":", "3", "0", "5">>,
     <<"1", ":", "3", "0">>,
     <<"1", "0", "h", "3", "0">>,
     <<"1", "0", "3", "0">>,
     <<"S", "a", "i", "d", "a", " ", "1", "0", ":", "3", "0">>,
     <<"2", "5", ":", "0", "0", " ", "1", "0", ":", "3", "0">>,
     <<"1", "0", ":", "3", "0", " ", "1", "2", ":", "0", "0">>,
     <<"1", "0", ":", "3", "0", ":", "5">>,
     <<"\t", "1", "2", ":", "0", "0", "\n">>}

DateTimeTexts ==
    {<<"0", "1", "/", "0", "1", "/", "2", "0", "2", "6", " ", "1", "0", ":", "3", "0">>,
     <<"3", "1", "/", "0", "2", "/", "2", "0", "2", "6", " ", "1", "0", ":", "3", "0">>,
     <<"0", "1", "/", "0", "1", " ", "1", "0", ":", "3", "0">>,
     <<"0", "1", "/", "0", "1", "/", "0", "0", "0", "0", " ", "1", "0", ":", "3", "0">>,
     <<"2", "9", "/", "0", "2", "/", "2", "0", "2", "8", " ", " ", "2", "3", ":", "5", "9", ":", "5", "9">>}

OtherTexts ==
    {<<"a", "b", "c">>,
     <<"R", "$">>,
     <<",">>,
     <<".">>,
     <<"-">>,
     <<"1", ",", "2", ",", "3">>,
     <<"R", "$", " ", "1", ",", "5">>,
     <<"1", "2">>,
     <<" ">>}

NameTexts ==
    {<<"G", "O", "L">>,
     <<"G", "O", "L", " ", "L", "i", "n", "h", "a", "s", " ", "A", "e_acute", "r", "e", "a", "s", " ", "S", ".", "A", ".">>,
     <<"L", "A", "T", "A", "M", " ", "l", "i", "n", "h", "a", "s", " ", "a", "e", "r", "e", "a", "s">>,
     <<"T", "a", "r", "i", "f", "a", " ", "A">>,
     <<"t", "a", "r", "i", "f", "a", "b">>,
     <<"C", "l", "a", "s", "s", "e", " ", "C">>,
     <<"x">>}

\* an amount of cents written as the sites write it: "R$ 1.234,56"
DigitChar(d) == CHOOSE c \in Digits : DigitVal(c) = d

RECURSIVE NatToDigits(_)
NatToDigits(n) ==
    IF n < 10 THEN <<DigitChar(n)>> ELSE NatToDigits(n \div 10) \o <<DigitChar(n % 10)>>

RECURSIVE Thousands(_)
Thousands(ds) ==
    IF Len(ds) <= 3 THEN ds
    ELSE Thousands(SubSeq(ds, 1, Len(ds) - 3)) \o <<".">> \o SubSeq(ds, Len(ds) - 2, Len(ds))

FormatBRL(c) ==
    <<"R", "$", " ">> \o Thousands(NatToDigits(c \div 100)) \o <<",">>
        \o <<DigitChar((c % 100) \div 10), DigitChar(c % 10)>>

Amounts == {0, 1, 5, 10, 99, 100, 3000, 45000, 99999, 100000, 123456, 12345678, 100000000}

\* the first card as processar_trecho_advp may find it: each of the six
\* relative lookups finds its element or not, the innerText of the card is
\* not readable, empty, or a text with two times and a price
CardReads ==
    {[card |-> TRUE, partida |-> pa, chegada |-> ch, tarifa |-> ta, tx_emb |-> tx,
      total |-> to, cia |-> ci, inner |-> inn] :
        pa \in {Missing, Elem(Txt1030)}, ch \in {Missing, Elem(Txt1200)},
        ta \in {Missing, Elem(TxtR450)}, tx \in {Missing, Elem(TxtR30)},
        to \in {Missing, Elem(TxtR480)}, ci \in {Missing, Elem(TxtGOL)},
        inn \in {NoneTxt, <<>>, TxtCardAzul}}

NormInit ==
    /\ site \in Sites
    /\ caller = "main"
    /\ once = TRUE
    /\ pc = "start"
    /\ cycle = 0
    /\ ti = 1 /\ ai = 1 /\ begun = 0
    /\ today = 0 /\ startDay = 0
    /\ elapsed = 0
    /\ status = "unset"
    /\ tickObs = NoObs
    /\ iter = NoIter
    /\ lastRow = NoRow
    /\ shown = EmptyShown(site)
    /\ lastLog = NoLog
    /\ driver = NoDriver
    /\ slept = 0
    /\ SinkIdle
    /\ \/ \E c \in Amounts : arg = FormatBRL(c) /\ cents = c
       \/ /\ arg \in {NoneTxt, <<>>} \cup TimeTexts \cup DateTimeTexts \cup OtherTexts
                        \cup NameTexts
          /\ cents = -1
    /\ fn = "none"
    /\ ret = NoRet
    /\ card \in (IF site = "Capo" /\ arg = NoneTxt THEN CardReads ELSE {CapoNoCard})
    /\ DashIdle

\* one call of a normalizer of the scraper
Called(name, r, fallback) ==
    /\ fn' = name
    /\ ret' = [raised |-> r.raised, value |-> r.value, fallback |-> fallback]
    /\ UNCHANGED <<mainVars, sinkVars, dashVars, arg, cents, card>>

\* the amounts of the model are TLC's integers: texts of more digits are left out
MaxDigits == 9

FewDigits(txt) == Len(SelectSeq(txt, IsDigit)) <= MaxDigits

BrlToDecimal ==
    /\ site \in {"Flip", "Max"}
    /\ FewDigits(arg)
    /\ Called("brl_to_decimal", Call_brl_to_decimal(arg), NoneVal)

BrlToFloat ==
    /\ site = "Capo"
    /\ FewDigits(arg)
    /\ Called("brl_to_float", Call_brl_to_float(arg), NoneVal)

HhmmToTime ==
    /\ site = "Capo"
    /\ Called("hhmm_to_time", Call_hhmm_to_time(arg), NoneVal)

ParseTimeOnly ==
    /\ site = "Max"
    /\ Called("parse_time_only", Call_parse_time_only(arg), NoneVal)

ParseDatetimeBr ==
    /\ site = "Flip"
    /\ \E fallback \in {NoneVal, AddDays(BaseDate, 1)} :
          Called("parse_datetime_br", Call_parse_datetime_br(arg, fallback), fallback)

CleanCiaText ==
    /\ site \in {"Flip", "Max"}
    /\ Called("clean_cia_text", Call_clean_cia_text(site, arg), NoneVal)

ExtractLetraTarifa ==
    /\ site = "Max"
    /\ Called("extract_letra_tarifa", Call_extract_letra_tarifa(arg), NoneVal)

\* processar_trecho_advp, from the six text_or_inner lookups of the card to
\* the texts handed to the normalizers
ExtractCard ==
    /\ site = "Capo"
    /\ card.card
    /\ fn' = "extract"
    /\ ret' = [raised |-> FALSE, value |-> CapoExtract(card), fallback |-> NoneVal]
    /\ UNCHANGED <<mainVars, sinkVars, dashVars, arg, cents, card>>

NormNext ==
    \/ BrlToDecimal
    \/ BrlToFloat
    \/ HhmmToTime
    \/ ParseTimeOnly
    \/ ParseDatetimeBr
    \/ CleanCiaText
    \/ ExtractLetraTarifa
    \/ ExtractCard

SpecNorm == NormInit /\ [][NormNext]_vars

(***************************************************************************)
(* The dashboard (streamlit_app.py): it reads the workbooks of the data    *)
(* folder, brings their columns to one set, and renders one tab per site.  *)
(* A data frame is [columns, rows]: the names of the columns and, per row, *)
(* the cells in the order of the columns; NaN and NaT are NoneVal.  The    *)
(* datetime columns are kept by their day.                                 *)
(***************************************************************************)
UpperTxt(s) == IF s = <<>> THEN <<>> ELSE [i \in 1..Len(s) |-> Upper(s[i])]

\* re.match(r"^prefix", u)
StartsWith(u, prefix) == Len(u) >= Len(prefix) /\ SubSeq(u, 1, Len(prefix)) = prefix

\* the file names main gives the workbook when --file is not given
\* (strftime("%Y%m%d_%H%M%S") of the start of the run), and one given by --file
CapoDefaultName ==
    <<"C", "A", "P", "O", "V", "I", "A", "G", "E", "N", "S", "_", "2", "0", "2", "5",
      "1", "2", "3", "1", "_", "2", "3", "5", "9", "5", "8", ".", "x", "l", "s", "x">>
FlipDefaultName ==
    <<"F", "L", "I", "P", "M", "I", "L", "H", "A", "S", ".", "x", "l", "s", "x">>
MaxDefaultName ==
    <<"M", "A", "X", "_", "2", "0", "2", "5", "1", "2", "3", "1", "_", "2", "3", "5",
      "9", "5", "8", ".", "x", "l", "s", "x">>
OtherName ==
    <<"b", "u", "s", "c", "a", "s", ".", "x", "l", "s", "x">>

DefaultName(s) ==
    CASE s = "Capo" -> CapoDefaultName [] s = "Flip" -> FlipDefaultName
      [] s = "Max" -> MaxDefaultName

\* the value of EMPRESA the tab of a scraper's site selects
EmpresaOf(s) ==
    CASE s = "Capo" -> "CAPO VIAGENS" [] s = "Flip" -> "FLIPMILHAS" [] s = "Max" -> "MAXMILHAS"

detect_empresa_from_filename(name) ==
    LET u == UpperTxt(name)
    IN  IF StartsWith(u, <<"C", "A", "P", "O", "V", "I", "A", "G", "E", "N", "S", "_">>)
        THEN "CAPO VIAGENS"
        ELSE IF StartsWith(u, <<"F", "L", "I", "P", "M", "I", "L", "H", "A", "S", "_">>)
        THEN "FLIPMILHAS"
        ELSE IF StartsWith(u, <<"M", "A", "X", "M", "I", "L", "H", "A", "S", "_">>)
        THEN "MAXMILHAS"
        ELSE IF StartsWith(u, <<"1", "2", "3", "M", "I", "L", "H", "A", "S", "_">>)
        THEN "123MILHAS"
        ELSE IF Contains(u, <<"F", "L", "I", "P">>) \/ Contains(u, <<"F", "L", "I", "P", "M", "I", "L", "H", "A", "S">>)
        THEN "FLIPMILHAS"
        ELSE IF Contains(u, <<"C", "A", "P", "O">>) \/ Contains(u, <<"C", "A", "P", "O", "V", "I", "A", "G", "E", "N", "S">>)
        THEN "CAPO VIAGENS"
        ELSE IF Contains(u, <<"M", "A", "X">>) /\ Contains(u, <<"M", "I", "L", "H", "A", "S">>)
        THEN "MAXMILHAS"
        ELSE IF Contains(u, <<"1", "2", "3">>) /\ Contains(u, <<"M", "I", "L", "H", "A", "S">>)
        THEN "123MILHAS"
        ELSE "N/A"

\* a cell as pd.read_excel gives it: an empty cell and an empty text are NaN
ReadCell(v) == IF v = <<>> \/ v = NoneVal THEN NoneVal ELSE v

\* pd.read_excel(p): the first row of the sheet names the columns
read_excel(header, rows) ==
    [columns |-> header,
     rows |-> [i \in 1..Len(rows) |->
                 [k \in 1..Len(header) |->
                     IF k <= Len(rows[i]) THEN ReadCell(rows[i][k]) ELSE NoneVal]]]

HasCol(df, c) == \E k \in 1..Len(df.columns) : df.columns[k] = c

\* _ensure_series(df, col)[i], and df[col][i] of a column that is there
Get(df, i, c) ==
    IF HasCol(df, c)
    THEN df.rows[i][CHOOSE k \in 1..Len(df.columns) : df.columns[k] = c]
    ELSE NoneVal

\* str(c).strip().lower() of the column names the scrapers write
LowerName(c) ==
    CASE c = "DATA DA BUSCA" -> "data da busca" [] c = "HORA DA BUSCA" -> "hora da busca"
      [] c = "TRECHO" -> "trecho" [] c = "DATA PARTIDA" -> "data partida"
      [] c = "HORA DA PARTIDA" -> "hora da partida" [] c = "DATA CHEGADA" -> "data chegada"
      [] c = "HORA DA CHEGADA" -> "hora da chegada" [] c = "TARIFA" -> "tarifa"
      [] c = "TX DE EMBARQUE" -> "tx de embarque" [] c = "TOTAL" -> "total"
      [] c = "CIA DO VOO" -> "cia do voo" [] c = "DATA DO VOO" -> "data do voo"
      [] c = "HR IDA" -> "hr ida" [] c = "HR VOLTA" -> "hr volta"
      [] c = "DESCONTO" -> "desconto" [] c = "VALOR COM TAXA" -> "valor com taxa"
      [] c = "TX DE  EMISS{A_tilde}O" -> "tx de  emiss{a_tilde}o"
      [] c = "TIPO (A/C)" -> "tipo (a/c)"

\* re.sub(r"\s+", " ", str(c)).strip().upper() of the column names the scrapers write
UpperName(c) == IF c = "TX DE  EMISS{A_tilde}O" THEN "TX DE EMISS{A_tilde}O" ELSE c

Renamed(df, f(_)) ==
    [columns |-> [k \in 1..Len(df.columns) |-> f(df.columns[k])], rows |-> df.rows]

\* the days from 0001-01-01 to a date, as the difference of two normalized
\* datetimes counts them
RECURSIVE DaysBeforeMonth(_, _)
DaysBeforeMonth(y, m) ==
    IF m = 1 THEN 0 ELSE DaysBeforeMonth(y, m - 1) + DaysInMonth(y, m - 1)

Ordinal(d) ==
    LET y == d[1] - 1
    IN  365 * y + (y \div 4) - (y \div 100) + (y \div 400) + DaysBeforeMonth(d[1], d[2]) + d[3]

\* (PARTIDA_DATETIME.dt.normalize() - BUSCA_DATETIME.dt.normalize()).dt.days;
\* a number of days n is written <<"days", n>>
DaysApart(partida_day, busca_day) ==
    IF partida_day = NoneVal \/ busca_day = NoneVal THEN NoneVal
    ELSE <<"days", Ordinal(partida_day) - Ordinal(busca_day)>>

\* pd.to_numeric(advp, errors="coerce")[i] of a cell that is empty or a number
to_numeric(v) == IF v = NoneVal THEN NoneVal ELSE <<"days", v[1]>>

\* the day the dashboard runs
DashToday == AddDays(BaseDate, 1)

\* _to_float_series(s)[i] of a column of numbers: the float itself, NaN for an
\* empty cell (the columns of amounts the scrapers write hold no text)
to_float_series(v) == v

\* _norm_ddmmaa_from_any_date(s)[i] and _norm_hhmmss(s)[i]: the date as
\* dd/mm/yyyy and the time as HH:MM:SS, written <<"ddmmaa", v>> and
\* <<"hhmmss", v>>; a cell that is no date gives NaN, a cell that is no time
\* gives 00:00:00 (the groups of the regex filled with "00")
norm_ddmmaa_from_any_date(v) == IF v = NoneVal THEN NoneVal ELSE <<"ddmmaa", v>>
norm_hhmmss(v) == IF v = NoneVal THEN <<"hhmmss", <<0, 0, 0>>>> ELSE <<"hhmmss", v>>

TxtNAN == <<"N", "A", "N">>

\* cia.astype(str).str.strip().str.upper()
CiaUpper(v) == IF v = NoneVal THEN TxtNAN ELSE UpperTxt(Strip(v))

\* pd.to_datetime of a time with no date before it.  In the general schema
\* the text is the time alone and pandas reads it as a time of today; in the
\* Capo schema the text begins with a blank (_combo_dt joins "" + " " + time)
\* and, by the version of pandas, is read as a time of today or not at all:
\* lone_today tells which.
DayOf(date, time, lone_today) ==
    IF date # NoneVal THEN date
    ELSE IF time # NoneVal /\ lone_today THEN DashToday
    ELSE NoneVal

\* the columns of the frame _normalize_df returns for the Capo schema
CapoStdColumns ==
    {"BUSCA_DATETIME", "DATA DA BUSCA", "HORA DA BUSCA", "TRECHO", "CIA DO VOO", "ADVP",
     "PARTIDA_DATETIME", "DATA PARTIDA", "HORA DA PARTIDA",
     "CHEGADA_DATETIME", "DATA CHEGADA", "HORA DA CHEGADA",
     "TARIFA", "TX DE EMBARQUE", "TX DE SERVI{C_cedil}O", "TOTAL", "NUMERO DO VOO",
     "EMPRESA", "ARQUIVO"}

\* _normalize_df, the branch taken for the Capo schema and for a file whose
\* name is Capo's
NormalizeCapo(df0, name, lone_today) ==
    LET df == Renamed(df0, LowerName)
        n == Len(df.rows)
        busca(i) == DayOf(Get(df, i, "captura_data"),
                          norm_hhmmss(Get(df, i, "captura_hora")), lone_today)
        partida0(i) == DayOf(Get(df, i, "data_voo"),
                             norm_hhmmss(Get(df, i, "hr_ida")), lone_today)
        chegada(i) == DayOf(Get(df, i, "data_voo"),
                            norm_hhmmss(Get(df, i, "hr_volta")), lone_today)
        advp0(i) == to_numeric(Get(df, i, "antecedencia"))
        from_advp == /\ \A i \in 1..n : partida0(i) = NoneVal
                     /\ \E i \in 1..n : busca(i) # NoneVal
                     /\ \E i \in 1..n : advp0(i) # NoneVal
        partida(i) ==
            IF ~from_advp THEN partida0(i)
            ELSE IF busca(i) = NoneVal THEN NoneVal
            ELSE AddDays(busca(i), IF advp0(i) = NoneVal THEN 0 ELSE advp0(i)[2])
    IN  [i \in 1..n |->
            "BUSCA_DATETIME" :> busca(i)
            @@ "DATA DA BUSCA" :> norm_ddmmaa_from_any_date(Get(df, i, "captura_data"))
            @@ "HORA DA BUSCA" :> norm_hhmmss(Get(df, i, "captura_hora"))
            @@ "TRECHO" :> Get(df, i, "trecho")
            @@ "CIA DO VOO" :> CiaUpper(Get(df, i, "cia"))
            @@ "ADVP" :> (IF advp0(i) # NoneVal THEN advp0(i)
                          ELSE DaysApart(partida(i), busca(i)))
            @@ "PARTIDA_DATETIME" :> partida(i)
            @@ "DATA PARTIDA" :> norm_ddmmaa_from_any_date(Get(df, i, "data_voo"))
            @@ "HORA DA PARTIDA" :> norm_hhmmss(Get(df, i, "hr_ida"))
            @@ "CHEGADA_DATETIME" :> chegada(i)
            @@ "DATA CHEGADA" :> norm_ddmmaa_from_any_date(Get(df, i, "data_voo"))
            @@ "HORA DA CHEGADA" :> norm_hhmmss(Get(df, i, "hr_volta"))
            @@ "TARIFA" :> to_float_series(Get(df, i, "por_adulto"))
            @@ "TX DE EMBARQUE" :> to_float_series(Get(df, i, "taxa_embarque"))
            @@ "TX DE SERVI{C_cedil}O" :> to_float_series(Get(df, i, "taxa_servico"))
            @@ "TOTAL" :> to_float_series(Get(df, i, "valor_total"))
            @@ "NUMERO DO VOO" :> Get(df, i, "numero_voo")
            @@ "EMPRESA" :> "CAPO VIAGENS"
            @@ "ARQUIVO" :> name]

\* ren: a column is renamed when its new name is not there yet
RenPairs ==
    <<<<"CIA", "CIA DO VOO">>, <<"CIA DO V{O_circ}O", "CIA DO VOO">>,
      <<"TX EMBARQUE", "TX DE EMBARQUE">>, <<"TAXA DE EMBARQUE", "TX DE EMBARQUE">>,
      <<"VALOR TOTAL", "TOTAL">>, <<"VALOR", "TOTAL">>>>

RECURSIVE ApplyRen(_, _)
ApplyRen(df, k) ==
    IF k > Len(RenPairs) THEN df
    ELSE IF HasCol(df, RenPairs[k][1]) /\ ~HasCol(df, RenPairs[k][2])
    THEN ApplyRen([columns |-> [j \in 1..Len(df.columns) |->
                                   IF df.columns[j] = RenPairs[k][1] THEN RenPairs[k][2]
                                   ELSE df.columns[j]],
                   rows |-> df.rows], k + 1)
    ELSE ApplyRen(df, k + 1)

\* the columns every frame of the general schema has
GeneralColumns ==
    {"BUSCA_DATETIME", "DATA DA BUSCA", "HORA DA BUSCA", "TRECHO", "CIA DO VOO", "ADVP",
     "PARTIDA_DATETIME", "DATA PARTIDA", "HORA DA PARTIDA",
     "CHEGADA_DATETIME", "DATA CHEGADA", "HORA DA CHEGADA",
     "TARIFA", "TX DE EMBARQUE", "TOTAL", "EMPRESA", "ARQUIVO"}

\* _normalize_df, the general schema: a required column that is missing is a
\* column of NaN, the other columns of the file are kept
NormalizeGeneral(df0, name) ==
    LET df == ApplyRen(Renamed(df0, UpperName), 1)
        n == Len(df.rows)
        others == {df.columns[k] : k \in 1..Len(df.columns)} \ GeneralColumns
        busca(i) == DayOf(Get(df, i, "DATA DA BUSCA"), Get(df, i, "HORA DA BUSCA"), TRUE)
        partida(i) == DayOf(Get(df, i, "DATA PARTIDA"), Get(df, i, "HORA DA PARTIDA"), TRUE)
        chegada(i) == DayOf(Get(df, i, "DATA CHEGADA"), Get(df, i, "HORA DA CHEGADA"), TRUE)
    IN  [i \in 1..n |->
            [c \in others |-> Get(df, i, c)]
            @@ "BUSCA_DATETIME" :> busca(i)
            @@ "DATA DA BUSCA" :> Get(df, i, "DATA DA BUSCA")
            @@ "HORA DA BUSCA" :> Get(df, i, "HORA DA BUSCA")
            @@ "TRECHO" :> Get(df, i, "TRECHO")
            @@ "CIA DO VOO" :> Get(df, i, "CIA DO VOO")
            @@ "ADVP" :> DaysApart(partida(i), busca(i))
            @@ "PARTIDA_DATETIME" :> partida(i)
            @@ "DATA PARTIDA" :> Get(df, i, "DATA PARTIDA")
            @@ "HORA DA PARTIDA" :> Get(df, i, "HORA DA PARTIDA")
            @@ "CHEGADA_DATETIME" :> chegada(i)
            @@ "DATA CHEGADA" :> Get(df, i, "DATA CHEGADA")
            @@ "HORA DA CHEGADA" :> Get(df, i, "HORA DA CHEGADA")
            @@ "TARIFA" :> to_float_series(Get(df, i, "TARIFA"))
            @@ "TX DE EMBARQUE" :> to_float_series(Get(df, i, "TX DE EMBARQUE"))
            @@ "TOTAL" :> to_float_series(Get(df, i, "TOTAL"))
            @@ "EMPRESA" :> detect_empresa_from_filename(name)
            @@ "ARQUIVO" :> name]

CapoSchema ==
    {"captura_data", "captura_hora", "trecho", "antecedencia", "data_voo", "cia",
     "valor_total"}

\* _normalize_df(df, p): the rows of the normalized frame
normalize_df(df, name, lone_today) ==
    IF \/ CapoSchema \subseteq {LowerName(df.columns[k]) : k \in 1..Len(df.columns)}
       \/ detect_empresa_from_filename(name) = "CAPO VIAGENS"
    THEN NormalizeCapo(df, name, lone_today)
    ELSE NormalizeGeneral(df, name)

\* _read_one(path, ...): an empty frame is returned as it is
read_one(header, rows, name, lone_today) ==
    IF rows = <<>> THEN <<>>
    ELSE normalize_df(read_excel(header, rows), name, lone_today)

\* df.sort_values("BUSCA_DATETIME", ascending=False, kind="stable"), by the
\* day: the rows of the latest day first, those with no day last
RECURSIVE SortByBusca(_)
SortByBusca(fr) ==
    IF fr = <<>> THEN <<>>
    ELSE LET key(i) == IF fr[i]["BUSCA_DATETIME"] = NoneVal THEN 0
                       ELSE Ordinal(fr[i]["BUSCA_DATETIME"])
             top == CHOOSE i \in 1..Len(fr) :
                        /\ \A j \in 1..Len(fr) : key(j) <= key(i)
                        /\ \A j \in 1..(i - 1) : key(j) < key(i)
         IN  <<fr[top]>> \o SortByBusca(SubSeq(fr, 1, top - 1) \o SubSeq(fr, top + 1, Len(fr)))

\* load_with_progress(files, ...) for the one workbook of the folder
load_with_progress(header, rows, name, lone_today) ==
    SortByBusca(read_one(header, rows, name, lone_today))

(************************** the Top-3 table ********************************)
\* an amount in cents (the amounts of the workbooks have two decimals)
Cents(d) == d[1] * Pow10(2 - d[2])

\* VAL is a quotient <<cents, count>>: the minimum over 1, or the sum over the
\* number of the rows
ValLess(x, y) == x[1] * y[2] < y[1] * x[2]

RECURSIVE SumCents(_, _)
SumCents(df, idx) ==
    IF idx = {} THEN 0
    ELSE LET i == CHOOSE j \in idx : TRUE
         IN  Cents(df[i]["TOTAL"]) + SumCents(df, idx \ {i})

\* groupby(["TRECHO", "ADVP"])["TOTAL"].min() or .mean() of one group: the
\* rows with no TOTAL are skipped, a group of none gives NaN
GroupVal(df, trecho, advp, how) ==
    LET idx == {i \in 1..Len(df) : /\ df[i]["TRECHO"] = trecho /\ df[i]["ADVP"] = advp
                                   /\ df[i]["TOTAL"] # NoneVal}
    IN  IF idx = {} THEN NoneVal
        ELSE IF how = "min"
        THEN <<CHOOSE c \in {Cents(df[i]["TOTAL"]) : i \in idx} :
                   \A i \in idx : c <= Cents(df[i]["TOTAL"]), 1>>
        ELSE <<SumCents(df, idx), Cardinality(idx)>>

\* the keys of the groups: rows with no TRECHO or no ADVP are in no group
GroupTrechos(df) ==
    {df[i]["TRECHO"] : i \in {j \in 1..Len(df) : /\ df[j]["TRECHO"] # NoneVal
                                               /\ df[j]["ADVP"] # NoneVal}}
GroupAdvps(df, trecho) ==
    {df[i]["ADVP"] : i \in {j \in 1..Len(df) : /\ df[j]["TRECHO"] = trecho
                                              /\ df[j]["ADVP"] # NoneVal}}

\* a set of numbers of days in ascending order
RECURSIVE Ascending(_)
Ascending(S) ==
    IF S = {} THEN <<>>
    ELSE LET m == CHOOSE x \in S : \A y \in S : x[2] <= y[2]
         IN  <<m>> \o Ascending(S \ {m})

\* the rows of base of one TRECHO, by ADVP
SubOf(df, trecho, how) ==
    LET advps == Ascending(GroupAdvps(df, trecho))
    IN  [k \in 1..Len(advps) |->
            [ADVP |-> advps[k], VAL |-> GroupVal(df, trecho, advps[k], how)]]

\* the rows of g by VAL, the first of equal ones first, those without VAL left out
RECURSIVE ByVal(_)
ByVal(g) ==
    IF \A k \in 1..Len(g) : g[k].VAL = NoneVal THEN <<>>
    ELSE LET low == CHOOSE i \in 1..Len(g) :
                        /\ g[i].VAL # NoneVal
                        /\ \A j \in 1..Len(g) :
                              g[j].VAL # NoneVal => ~ValLess(g[j].VAL, g[i].VAL)
                        /\ \A j \in 1..(i - 1) :
                              g[j].VAL # NoneVal => ValLess(g[i].VAL, g[j].VAL)
         IN  <<g[low]>> \o ByVal(SubSeq(g, 1, low - 1) \o SubSeq(g, low + 1, Len(g)))

\* sub.nsmallest(n, "VAL"): the rows without VAL come last
nsmallest(g, n) ==
    LET all == ByVal(g) \o SelectSeq(g, LAMBDA r : r.VAL = NoneVal)
    IN  SubSeq(all, 1, IF Len(all) < n THEN Len(all) ELSE n)

\* the order of two texts of capitals and "-"
CharRank(c) ==
    IF c = "-" THEN 0 ELSE CHOOSE i \in DOMAIN UpperLetters : UpperLetters[i] = c

RECURSIVE TxtLess(_, _)
TxtLess(a, b) ==
    IF b = <<>> THEN FALSE
    ELSE IF a = <<>> THEN TRUE
    ELSE IF a[1] # b[1] THEN CharRank(a[1]) < CharRank(b[1])
    ELSE TxtLess(Tail(a), Tail(b))

RECURSIVE TxtAscending(_)
TxtAscending(S) ==
    IF S = {} THEN <<>>
    ELSE LET m == CHOOSE x \in S : \A y \in S \ {x} : TxtLess(x, y)
         IN  <<m>> \o TxtAscending(S \ {m})

\* vals[k] if len(vals) > k else np.nan
At(seq, k, field) == IF Len(seq) >= k THEN seq[k][field] ELSE NoneVal

\* the mutation of the table: two entries per route
top3_tabela_two(df_emp, how0) ==
    LET how == IF how0 \notin {"min", "mean"} THEN "min" ELSE how0
        trechos == TxtAscending(GroupTrechos(df_emp))
    IN  [r \in 1..Len(trechos) |->
            LET top == nsmallest(SubOf(df_emp, trechos[r], how), 2)
            IN  [TRECHO |-> trechos[r],
                 PRECO |-> <<At(top, 1, "VAL"), At(top, 2, "VAL"), At(top, 3, "VAL")>>,
                 ADVP |-> <<At(top, 1, "ADVP"), At(top, 2, "ADVP"), At(top, 3, "ADVP")>>]]

\* top3_tabela(df_emp, agg): the rows of df_tbl, PRECO and ADVP being the
\* columns TOP 1 to TOP 3; <<>> when there is no group ("Sem dados")
top3_tabela(df_emp, how0) ==
    LET how == IF how0 \notin {"min", "mean"} THEN "min" ELSE how0
        trechos == TxtAscending(GroupTrechos(df_emp))
    IN  [r \in 1..Len(trechos) |->
            LET top == nsmallest(SubOf(df_emp, trechos[r], how), 3)
            IN  [TRECHO |-> trechos[r],
                 PRECO |-> <<At(top, 1, "VAL"), At(top, 2, "VAL"), At(top, 3, "VAL")>>,
                 ADVP |-> <<At(top, 1, "ADVP"), At(top, 2, "ADVP"), At(top, 3, "ADVP")>>]]

\* df_all[df_all["EMPRESA"] == empresa]
OfEmpresa(df_all, empresa) == SelectSeq(df_all, LAMBDA r : r["EMPRESA"] = empresa)

\* render_empresa(df_emp, ...), its Top-3 table: nothing is rendered for an
\* empty frame
render_empresa(df_emp, menor_preco) ==
    IF df_emp = <<>> THEN <<>>
    ELSE top3_tabela(df_emp, IF menor_preco THEN "min" ELSE "mean")

Tabs == {"FLIPMILHAS", "CAPO VIAGENS", "MAXMILHAS", "123MILHAS"}

(********************* the workbooks the dashboard reads *******************)
\* the rows a workbook may hold
MaxBookRows == 4

\* the searches of the rows: route (of AllTrechos) and ADVP (of AllAdvp)
BookCombos == <<<<1, 1>>, <<1, 2>>, <<1, 3>>, <<1, 4>>, <<2, 1>>>>

\* what the search of a row found: nothing, or an offer of R$ 450,00 or R$ 480,00
Variants == <<"none", "low", "high">>

CapoBookCard(v) ==
    [card |-> TRUE, partida |-> Elem(Txt1030), chegada |-> Elem(Txt1200),
     tarifa |-> IF v = "high" THEN Elem(TxtR450) ELSE Missing,
     tx_emb |-> IF v = "high" THEN Elem(TxtR30) ELSE Missing,
     total |-> IF v = "high" THEN Elem(TxtR480) ELSE Elem(TxtR450),
     cia |-> Elem(TxtGOL), inner |-> TxtCard]

FlipBookPage(v) ==
    [partida |-> AtOnce(Txt1030, 3), chegada |-> AtOnce(Txt1200, 3),
     tarifa |-> AtOnce(TxtR450, 3),
     taxa |-> IF v = "high" THEN AtOnce(TxtR30, 3) ELSE Never(3),
     cia |-> AtOnce(TxtGOL, 2)]

MaxBookPage(v) ==
    [hr_ida |-> Txt1030, hr_volta |-> Txt1200, tarifa_g |-> TxtR450,
     total_j |-> IF v = "high" THEN AtOnce(TxtR480, 2) ELSE AtOnce(TxtR450, 2),
     tx_emb |-> IF v = "high" THEN AtOnce(TxtR30, 2) ELSE Never(2),
     tx_emis |-> Never(2), desc |-> Never(2), cia |-> TxtGOL, tipo |-> AtOnce(TxtTarifaA, 2)]

\* the list the scraper s appends for the search c with the outcome v, the
\* search made on BaseDate
BookRow(s, c, v) ==
    LET trecho == TrechoStr(AllTrechos[BookCombos[c][1]])
        voo == AddDays(BaseDate, AllAdvp[BookCombos[c][2]])
        st == IF v = "none" THEN NoOffersStatus(s) ELSE SuccessStatus(s)
    IN  RowList(s,
            IF s = "Capo" THEN CapoRow(st = "ok", CapoBookCard(v), BaseDate, trecho, voo)
            ELSE IF s = "Flip" THEN FlipRow(st, TRUE, FlipBookPage(v), BaseDate, trecho, voo)
            ELSE MaxRow(st, TRUE, MaxBookPage(v), BaseDate, trecho, voo))

DashInit ==
    /\ site \in Sites
    /\ caller = "main"
    /\ once = TRUE
    /\ pc = "start"
    /\ cycle = 0
    /\ ti = 1 /\ ai = 1 /\ begun = 0
    /\ today = 0 /\ startDay = 0
    /\ elapsed = 0
    /\ status = "unset"
    /\ tickObs = NoObs
    /\ iter = NoIter
    /\ lastRow = NoRow
    /\ shown = EmptyShown(site)
    /\ lastLog = NoLog
    /\ driver = NoDriver
    /\ slept = 0
    /\ SinkIdle
    /\ NormIdle
    /\ book \in {[name |-> nm, rows |-> <<>>] :
                    nm \in {DefaultName(site)}
                           \cup (IF site = "Capo" THEN {OtherName} ELSE {})}
    /\ frame = <<>>
    /\ loaded = FALSE
    /\ tab = "none"
    /\ agg = "min"
    /\ table = <<>>

\* the place of a row in the order of the loops: the search, then the outcome
RowRank(c, v) == 3 * c + (CHOOSE k \in 0..2 : Variants[k + 1] = v)

\* the scraper appends the row of a search to its workbook (ws.append).  A
\* workbook of Capo or Max is of one run and holds a search once; Flip's
\* file is the same in every cycle and holds a search again and again.  The
\* rows are taken in the order of the loops.
ScraperAppends ==
    /\ ~loaded
    /\ Len(book.rows) < MaxBookRows
    /\ \E c \in 1..Len(BookCombos), v \in {Variants[k] : k \in 1..3} :
          /\ book.rows # <<>> =>
                LET last == book.rows[Len(book.rows)]
                IN  IF site = "Flip" THEN last.rank <= RowRank(c, v)
                    ELSE last.rank < 3 * c
          /\ book' = [book EXCEPT !.rows =
                         Append(@, [rank |-> RowRank(c, v), cells |-> BookRow(site, c, v)])]
    /\ UNCHANGED <<mainVars, sinkVars, normVars, frame, loaded, tab, agg, table>>

\* the dashboard starts: _list_files_filtered, load_with_progress
LoadFolder ==
    /\ ~loaded
    /\ loaded' = TRUE
    /\ \E lone_today \in BOOLEAN :
          frame' = load_with_progress(HEADERS(site),
                                      [i \in 1..Len(book.rows) |-> book.rows[i].cells],
                                      book.name, lone_today)
    /\ UNCHANGED <<mainVars, sinkVars, normVars, book, tab, agg, table>>

\* one tab is rendered with its toggle on or off; st.stop() ends the script
\* before the tabs when nothing was loaded
RenderEmpresa ==
    /\ loaded
    /\ frame # <<>>
    /\ \E t \in Tabs, menor_preco \in BOOLEAN :
          /\ tab' = t
          /\ agg' = IF menor_preco THEN "min" ELSE "mean"
          /\ table' = render_empresa(OfEmpresa(frame, t), menor_preco)
    /\ UNCHANGED <<mainVars, sinkVars, normVars, book, frame, loaded>>

DashNext ==
    \/ ScraperAppends
    \/ LoadFolder
    \/ RenderEmpresa

SpecDash == DashInit /\ [][DashNext]_vars

(***************************************************************************)
(* Properties of the rows and of the poll                                  *)
(***************************************************************************)
\* the columns that hold a time of flight, and those that hold an amount
TimeHeaders(s) ==
    IF s = "Max" THEN {"HR IDA", "HR VOLTA"} ELSE {"HORA DA PARTIDA", "HORA DA CHEGADA"}
MoneyHeaders(s) ==
    IF s = "Max"
    THEN {"TARIFA", "DESCONTO", "TX DE EMBARQUE", "VALOR COM TAXA",
          "TX DE  EMISS{A_tilde}O", "TOTAL"}
    ELSE {"TARIFA", "TX DE EMBARQUE", "TOTAL"}

\* no time of flight and no amount in the row
FlightFieldsNull(s, row) ==
    \A h \in TimeHeaders(s) \cup MoneyHeaders(s) : Cell(s, row, h) = NoneVal

\* the row says there is no offer
IsSentinelRow(s, row) ==
    /\ Cell(s, row, "CIA DO VOO") = SemOfertas
    /\ FlightFieldsNull(s, row)

\* the last search appended a row
RowWritten == iter.ended /\ iter.rows = 1 /\ lastRow # NoRow

\* C1: when the poll of a search ends in no-offers or in timeout, the row the
\* search writes has CIA DO VOO = "Sem Ofertas" and no amount and no time of
\* flight, in each of the three scrapers.
C1_NoOffersOrTimeoutWritesSentinel ==
    (RowWritten /\ status \in {NoOffersStatus(site), TimeoutStatus(site)})
        => IsSentinelRow(site, lastRow)

C1_Witness ==
    /\ RowWritten
    /\ site = "Flip" /\ status = "no_flights"
    /\ Cell(site, lastRow, "CIA DO VOO") = SemOfertas

\* C2: every row whose CIA DO VOO is "Sem Ofertas" has no amount and no time
\* of flight, whatever path built it.  Flip's extraction path breaks it: it
\* names the airline "Sem Ofertas" when it read no airline, no fare and no tax,
\* and keeps the times it read.
C2_SemOfertasRowsCarryNoFlightData ==
    (RowWritten /\ Cell(site, lastRow, "CIA DO VOO") = SemOfertas)
        => FlightFieldsNull(site, lastRow)

\* C3: a search in which neither the browser nor the file raises appends
\* exactly one row, so that a cycle appends one row per (route, ADVP).  Capo's
\* ciclo breaks it: build_url raises on the tuple it is given before the
\* browser is touched.
C3_OneRowPerCombination ==
    (iter.ended /\ iter.err \notin {"browser", "file"}) => iter.rows = 1

\* C4: a search that raises is logged by the loop and has written no row.
\* Flip breaks it when going back to the base tab raises after append_row.
C4_RaisedSearchWritesNoRow ==
    iter.raised => (iter.rows = 0 /\ lastLog = LogOf(iter.combo[1], iter.combo[2]))

\* C5: each poll returns no later than max_wait plus one poll interval (1 s)
\* after it started, the time of the lookups counted.  Flip and Max break it:
\* a pass that starts just inside the budget spends its WebDriverWait timeouts
\* (three of 1 s in Flip, one of 1.5 s in Max) and then sleeps 1 s.
C5_PollReturnsWithinBudgetPlusOneSecond ==
    pc = "polled" => elapsed <= MaxWaitOf(EsperaSec) + PollSleep

\* every text the extraction read is empty
AllEmpty(texts) == \A f \in DOMAIN texts : ~Truthy(texts[f])

\* C6: when the poll saw the success signal and the extraction read nothing,
\* the row is the no-offer row.  Max and Capo break it: they write an empty
\* CIA DO VOO.
C6_EmptyExtractionWritesSentinel ==
    (RowWritten /\ status = SuccessStatus(site) /\ iter.extracted /\ AllEmpty(shown))
        => IsSentinelRow(site, lastRow)

\* C7: a no-results text ("não encontramos voo" or "nenhum voo") and no buy or
\* price signal end the poll in no-offers on the pass that sees the text.
\* Capo's poll looks for no such text; Flip's looks for "nenhum voo" only;
\* Max's compares 'Nenhum voo' with its capital letter: those polls run on
\* until the timeout.
C7_NoResultsTextEndsPollOnThatPass ==
    (pc \in {"poll", "polled"} /\ tickObs.seen /\ IsNoResultsText(tickObs.txt)
        /\ ~tickObs.buy)
        => (pc = "polled" /\ status = NoOffersStatus(site))

\* the amount a text of the pages stands for
AmountOf(t) ==
    IF t = TxtR480 THEN <<480, 0>>
    ELSE IF t = TxtR450 THEN <<450, 0>>
    ELSE IF t = TxtR30 THEN <<30, 0>>
    ELSE <<0, 0>>

\* the total the page of the offer shows: Capo and Max read it, Flip shows a
\* fare and a boarding tax
ShownTotal ==
    IF site = "Flip"
    THEN (IF shown.tarifa = TxtR450 /\ shown.tx_emb = TxtR30 THEN TxtR480 ELSE NoneTxt)
    ELSE shown.total

\* C8: when the page shows an airline and a total within the budget, the row
\* has the route as TRECHO, the amount as TOTAL and the airline as CIA DO VOO.
C8_OfferRowCarriesRouteTotalAirline ==
    (RowWritten /\ status = SuccessStatus(site) /\ iter.extracted
        /\ shown.cia = TxtGOL /\ ShownTotal \in {TxtR480, TxtR450})
        => /\ Cell(site, lastRow, "TRECHO") = TrechoStr(TRECHOS[iter.combo[1]])
           /\ (iter.combo[1] = 1 =>
                  Cell(site, lastRow, "TRECHO") = <<"C", "G", "H", "-", "S", "D", "U">>)
           /\ Cell(site, lastRow, "TOTAL") = AmountOf(ShownTotal)
           /\ Cell(site, lastRow, "CIA DO VOO") = TxtGOL

C8_Witness ==
    /\ RowWritten /\ site = "Capo" /\ iter.extracted
    /\ shown.cia = TxtGOL /\ shown.total = TxtR480
    /\ Cell(site, lastRow, "TOTAL") = <<480, 0>>

\* C16: with --once, main runs one cycle over every (route, ADVP), each
\* search begun once, and then ends, also when searches of the cycle raised.
C16_OnceRunsOneCycle ==
    once => /\ cycle <= 1
            /\ begun <= Len(TRECHOS) * Len(ADVP_LIST)
            /\ pc \in {"cycle_end", "done"} =>
                   /\ begun = Len(TRECHOS) * Len(ADVP_LIST)
                   /\ iter.ended
                   /\ iter.combo = <<Len(TRECHOS), Len(ADVP_LIST)>>

C16_Witness ==
    /\ once /\ pc = "done"
    /\ site = "Capo" /\ caller = "main"
    /\ iter.raised /\ begun = Len(TRECHOS) * Len(ADVP_LIST)

\* C17: the locators of the detail fields are queried only in a search whose
\* poll reported the success signal and, in Flip and Max, whose buy click
\* succeeded; a search whose poll ended in no-offers or timeout reads nothing.
C17_ExtractionOnlyAfterSuccess ==
    /\ iter.extracted => /\ status = SuccessStatus(site)
                         /\ site # "Capo" => iter.clicked
    /\ (iter.ended /\ status \in {NoOffersStatus(site), TimeoutStatus(site)})
           => (~iter.extracted /\ shown = EmptyShown(site))

C17_Witness ==
    /\ site = "Max" /\ iter.extracted /\ iter.clicked
    /\ status = "buy"
    /\ shown.cia = TxtGOL

\* the texts in which each poll finds its no-offers marker
MarkerTexts(s) ==
    IF s = "Flip" THEN {TxtNenhumVooEncontrado, TxtNenhumVooLower}
    ELSE IF s = "Max" THEN {TxtNenhumVooEncontrado, TxtNaoEncontramosVoo}
    ELSE {}

\* the last pass saw the success signal, the no-offers marker
SignalSeen == IF site = "Capo" THEN tickObs.txt = TxtCard ELSE tickObs.buy
MarkerSeen == tickObs.txt \in MarkerTexts(site)

\* C18: a pass of the poll that sees the success signal or the no-offers
\* marker ends the loop on that pass with the outcome of what it saw; the
\* loop returns timeout only when its budget is used up and no pass saw
\* either.
C18_TimeoutOnlyWhenNothingSeen ==
    /\ (pc \in {"poll", "polled"} /\ tickObs.seen /\ (SignalSeen \/ MarkerSeen))
           => /\ pc = "polled"
              /\ status \in {SuccessStatus(site), NoOffersStatus(site)}
              /\ status = SuccessStatus(site) => SignalSeen
              /\ status = NoOffersStatus(site) => MarkerSeen
    /\ (pc = "polled" /\ status = TimeoutStatus(site))
           => /\ tickObs.seen /\ ~SignalSeen /\ ~MarkerSeen
              /\ elapsed >= MaxWaitOf(EsperaSec)

C18_Witness ==
    /\ site = "Max" /\ pc = "polled" /\ status = "timeout"
    /\ tickObs.seen /\ tickObs.txt = TxtCarregando
    /\ elapsed >= MaxWaitOf(EsperaSec)

\* an amount cell that is missing counts as zero
ZeroIfNull(c) == IF c = NoneVal THEN <<0, 0>> ELSE c

\* C19: in a Flip row written after the extraction, TOTAL is TARIFA plus
\* TX DE EMBARQUE whenever at least one of the two was extracted, a missing one
\* counting as 0 and an extracted 0,00 included; TOTAL is null only when both
\* are null.  Flip breaks it: line 330 tests the amounts by their truth value
\* and Decimal("0.00") is false.
C19_FlipTotalIsFarePlusTax ==
    (site = "Flip" /\ RowWritten /\ iter.extracted)
        => LET t == Cell(site, lastRow, "TARIFA")
               x == Cell(site, lastRow, "TX DE EMBARQUE")
               total == Cell(site, lastRow, "TOTAL")
           IN  IF t = NoneVal /\ x = NoneVal THEN total = NoneVal
               ELSE total = Canon(DecAdd(ZeroIfNull(t), ZeroIfNull(x)))

\* the column that holds the date of the flight
FlightDateColumn(s) == IF s = "Max" THEN "DATA DO VOO" ELSE "DATA PARTIDA"

\* the departure text of the page carried a date (dd/mm or dd/mm/yyyy)
DateReadFromPage ==
    site = "Flip" /\ iter.extracted /\ Contains(shown.partida, <<"/">>)

\* C20: in every row whose flight date was not read from the page, the flight
\* date is the search date plus the ADVP of the search, also when midnight
\* passes during the search.  Capo and Flip break it: data_voo is computed
\* from the clock read when the search starts, DATA DA BUSCA from a clock read
\* again after the poll.
C20_FlightDateIsSearchDatePlusAdvp ==
    (RowWritten /\ Cell(site, lastRow, FlightDateColumn(site)) # NoneVal
                /\ ~DateReadFromPage)
        => Cell(site, lastRow, FlightDateColumn(site))
             = AddDays(Cell(site, lastRow, "DATA DA BUSCA"), ADVP_LIST[iter.combo[2]])

(***************************************************************************)
(* Properties of the sink                                                  *)
(***************************************************************************)
\* the scraper's sheet is there and its first row holds the header
FirstRowIsHeader(f) ==
    /\ f.kind = "xlsx"
    /\ SHEET_NAME(site) \in SheetNames(f)
    /\ NamedRows(f) # <<>>
    /\ Values(NamedRows(f)[1]) = Values(HeaderRow(site))

\* what C10 lists: nothing, a corrupt file, a workbook with or without the sheet
ListedStart(f) == f.kind \in {"absent", "corrupt", "xlsx"}

\* C9: ensure_workbook called twice in a row leaves the file as it was after
\* the first call: no second header row, every data row where it was with the
\* values it had.
C9_EnsureTwiceLeavesFile ==
    (lastOp = "ensure" /\ prevOp = "ensure") => file = prevFile

C9_Witness ==
    /\ lastOp = "ensure" /\ prevOp = "ensure"
    /\ ~opRaised
    /\ FirstRowIsHeader(file)
    /\ Len(NamedRows(file)) >= 2

\* C10 (amended): after ensure_workbook returns, the path holds a workbook
\* with the scraper's sheet; the first row of the sheet is the header when the
\* path held nothing, a corrupt file or a workbook without the sheet; a sheet
\* that was already there is left as it was, header or not.
C10_EnsureLeavesWorkbookWithSheet ==
    (lastOp = "ensure" /\ ~opRaised /\ ListedStart(prevFile))
        => /\ file.kind = "xlsx"
           /\ SHEET_NAME(site) \in SheetNames(file)
           /\ IF prevFile.kind = "xlsx" /\ SHEET_NAME(site) \in SheetNames(prevFile)
              THEN file = prevFile
              ELSE FirstRowIsHeader(file)

C10_Witness ==
    /\ lastOp = "ensure" /\ ~opRaised
    /\ prevFile.kind = "xlsx" /\ SHEET_NAME(site) \notin SheetNames(prevFile)
    /\ FirstRowIsHeader(file)
    /\ Len(file.sheets) = 2

\* C10 (as stated): after ensure_workbook returns, the first row of the
\* scraper's sheet is the header, whatever the path held.
C10_EnsureLeavesHeaderFirst ==
    (lastOp = "ensure" /\ ~opRaised /\ ListedStart(prevFile)) => FirstRowIsHeader(file)

\* the rows of the sheet after the calls: the header, then a row per call
RowsOfCalls ==
    <<HeaderRow(site)>> \o [k \in 1..Len(calls.lists) |-> DataRow(site, calls.lists[k])]

\* C11: on a path that held nothing, n calls of append_row leave the header
\* row followed by the n data rows in the order of the calls: each call adds
\* its one row at the end and leaves the rows before it as they were.
C11_FreshPathHeaderThenRowsInOrder ==
    (calls.fresh /\ file.kind # "absent")
        => /\ file.kind = "xlsx"
           /\ NamedRows(file) = RowsOfCalls
           /\ (lastOp = "append" /\ prevFile.kind = "xlsx") =>
                  /\ Len(NamedRows(file)) = Len(NamedRows(prevFile)) + 1
                  /\ SubSeq(NamedRows(file), 1, Len(NamedRows(prevFile)))
                         = NamedRows(prevFile)

C11_Witness ==
    /\ calls.fresh /\ lastOp = "append" /\ prevOp = "append"
    /\ Len(calls.lists) = 3
    /\ Len(NamedRows(file)) = 4
    /\ calls.lists[1] # calls.lists[2]

\* the row the last append_row added
LastAppended == NamedRows(file)[Len(NamedRows(file))]

\* the columns append_row gives the amount format and the time format
MoneyColumns(s) == {k \in 1..Len(HEADERS(s)) : HEADERS(s)[k] \in MoneyHeaders(s)}
TimeColumns(s) ==
    {k \in 1..Len(HEADERS(s)) : HEADERS(s)[k] \in TimeHeaders(s) \cup {"HORA DA BUSCA"}}

\* C12 (amended): in every data row append_row adds, column B (HORA DA BUSCA)
\* has the time format, and every cell of an amount column (TARIFA, TX DE
\* EMBARQUE, TOTAL, and Max's other amounts) has the 2-decimal format when it
\* holds a value and no number format when it is null.  Column K is CIA DO VOO
\* in Capo and Flip, which has no number format, and the issuance tax in Max.
C12_AmountAndTimeColumnsFormatted ==
    (lastOp = "append" /\ ~opRaised)
        => /\ LastAppended[2].nf = "HH:MM:SS"
           /\ \A k \in MoneyColumns(site) :
                  LastAppended[k].nf =
                      IF LastAppended[k].v # NoneVal THEN "#,##0.00" ELSE "General"
           /\ \A k \in TimeColumns(site) :
                  LastAppended[k].nf =
                      IF LastAppended[k].v # NoneVal THEN "HH:MM:SS" ELSE "General"
           /\ 11 \in MoneyColumns(site) <=> site = "Max"
           /\ site # "Max" => /\ HEADERS(site)[11] = "CIA DO VOO"
                              /\ LastAppended[11].nf = "General"
                              /\ HEADERS(site)[10] = "TOTAL"

C12_Witness ==
    /\ lastOp = "append" /\ ~opRaised
    /\ site = "Capo"
    /\ LastAppended[10].v = <<480, 0>>
    /\ LastAppended[10].nf = "#,##0.00"
    /\ LastAppended[2].nf = "HH:MM:SS"

\* C12 (as stated): in every data row append_row adds, the cell of column K
\* has the 2-decimal amount format and the cell of column B the time format.
C12_ColumnKAmountColumnBTime ==
    (lastOp = "append" /\ ~opRaised)
        => /\ LastAppended[11].nf = "#,##0.00"
           /\ LastAppended[2].nf = "HH:MM:SS"

(***************************************************************************)
(* Properties of the normalizers                                           *)
(***************************************************************************)
MoneyFns == {"brl_to_decimal", "brl_to_float"}

\* C13: an amount of two decimals written "R$ 1.234,56" parses to that
\* amount (brl_to_decimal: the decimal; brl_to_float: the same number); a
\* text that holds no amount parses to None; neither raises.
C13_MoneyRoundTrip ==
    fn \in MoneyFns
        => /\ ~ret.raised
           /\ cents >= 0 =>
                  ret.value = IF fn = "brl_to_float" THEN Canon(<<cents, 2>>)
                              ELSE <<cents, 2>>
           /\ (arg = NoneTxt \/ \A i \in 1..Len(arg) : arg[i] \notin Digits)
                  => ret.value = NoneVal

C13_Witness ==
    /\ fn = "brl_to_decimal"
    /\ cents = 12345678
    /\ ret.value = <<12345678, 2>>

\* "HH:MM" or "HH:MM:SS", whatever the numbers
IsClock(s) ==
    /\ s # NoneTxt
    /\ Len(s) \in {5, 8}
    /\ \A i \in 1..Len(s) : IF i \in {3, 6} THEN s[i] = ":" ELSE s[i] \in Digits

\* the clock that starts at position p of s, seconds 0 when it has none
ClockAt(s, p) ==
    <<DigitsToNat(SubSeq(s, p, p + 1)), DigitsToNat(SubSeq(s, p + 3, p + 4)),
      IF p + 7 <= Len(s) /\ IsClock(SubSeq(s, p, p + 7))
      THEN DigitsToNat(SubSeq(s, p + 6, p + 7)) ELSE 0>>

InRange(t) == t[1] \in 0..23 /\ t[2] \in 0..59 /\ t[3] \in 0..59

ClockOf(s) == ClockAt(s, 1)

\* the whole text is a time of day
WholeTime(s) == IsClock(s) /\ InRange(ClockOf(s))

\* the text without the white space around it
Inner(s) == IF s = NoneTxt THEN NoneTxt ELSE Strip(s)

\* the time of day in what a time parser returned
TimeReturned ==
    IF fn = "parse_datetime_br" THEN TimeOf(ret.value) ELSE ret.value

\* the calls C14 is about: Flip's parser is given the date of the flight and
\* a text without a date
TimeCall ==
    \/ fn \in {"hhmm_to_time", "parse_time_only"}
    \/ /\ fn = "parse_datetime_br" /\ ret.fallback # NoneVal
       /\ arg # NoneTxt /\ \A i \in 1..Len(arg) : arg[i] # "/"

\* C14: a time parser returns the time of day exactly when its whole input
\* is a valid "HH:MM" or "HH:MM:SS", and None for every other string.  White
\* space around the input is not held against the claim.  Max's
\* parse_time_only and Flip's parse_datetime_br break it: they search the
\* text and take the first "HH:MM" inside "110:30" or "10:305".
C14_TimeOnlyForWholeInput ==
    TimeCall
        => /\ WholeTime(Inner(arg)) => TimeReturned = ClockOf(Inner(arg))
           /\ ~WholeTime(Inner(arg)) => ret.value = NoneVal

\* C15: every normalizer returns and does not raise, for every text, for the
\* empty text and for None; on the empty text and on None the parsers return
\* None and clean_cia_text the empty text.
C15_NormalizersTotal ==
    fn \notin {"none", "extract"}
        => /\ ~ret.raised
           /\ arg \in {NoneTxt, <<>>} =>
                  ret.value = IF fn = "clean_cia_text" THEN <<>> ELSE NoneVal

C15_Witness ==
    /\ fn = "parse_datetime_br"
    /\ ret.fallback # NoneVal
    /\ ~ret.raised
    /\ ret.value = NoneVal
    /\ Len(arg) = 16 /\ SubSeq(arg, 1, 5) = <<"3", "1", "/", "0", "2">>

(***************************************************************************)
(* Properties of the extraction from Capo's card                           *)
(***************************************************************************)
\* what the six lookups of the card gave, before the fallback
LocatorTexts ==
    [partida |-> text_or_inner(card.partida), chegada |-> text_or_inner(card.chegada),
     tarifa |-> text_or_inner(card.tarifa), tx_emb |-> text_or_inner(card.tx_emb),
     total |-> text_or_inner(card.total), cia |-> text_or_inner(card.cia)]

\* what the scan of the card's innerText finds
Scanned == regex_from_inner_text(card.inner)

SomeFieldEmpty == \E f \in DOMAIN LocatorTexts : ~Truthy(LocatorTexts[f])

\* C21: in Capo, whenever a target field is still empty after the lookups,
\* a time or a price the scan of the card text finds is used for the empty
\* time (departure, arrival) or amount (fare, total) field.  Capo breaks it:
\* the scan runs only when the departure, the total, or both fare and tax are
\* empty, and its price is used only when fare and total are both empty.
C21_EmptyFieldTakesRegexMatch ==
    (fn = "extract" /\ SomeFieldEmpty)
        => /\ \A f \in {"partida", "chegada"} :
                (~Truthy(LocatorTexts[f]) /\ Truthy(Scanned[f]))
                    => ret.value[f] = Scanned[f]
           /\ \A f \in {"tarifa", "total"} :
                (~Truthy(LocatorTexts[f]) /\ Truthy(Scanned.qualquer_preco))
                    => ret.value[f] = Scanned.qualquer_preco

\* C30: in Capo, the fallback never replaces a field the lookups filled:
\* departure, arrival, fare and total keep their non-empty locator text, and
\* the price of the scan is used for fare and total only when both were empty.
C30_FallbackKeepsLocatorValues ==
    fn = "extract"
        => /\ \A f \in {"partida", "chegada", "tarifa", "total"} :
                Truthy(LocatorTexts[f]) => ret.value[f] = LocatorTexts[f]
           /\ \A f \in {"tarifa", "total"} :
                ret.value[f] # LocatorTexts[f]
                    => /\ ~Truthy(LocatorTexts.tarifa) /\ ~Truthy(LocatorTexts.total)
                       /\ ret.value[f] = Scanned.qualquer_preco

\* the fallback ran on a card text with other times and another price than
\* the fields the lookups filled
C30_Witness ==
    /\ fn = "extract"
    /\ Truthy(LocatorTexts.partida) /\ Truthy(LocatorTexts.tarifa)
    /\ ~Truthy(LocatorTexts.total) /\ ~Truthy(LocatorTexts.chegada)
    /\ Truthy(Scanned.partida) /\ Scanned.partida # LocatorTexts.partida
    /\ Truthy(Scanned.qualquer_preco)
    /\ ret.value.chegada = Scanned.chegada
    /\ ret.value.partida = LocatorTexts.partida
    /\ ret.value.total = NoneTxt

(************************ Properties of the dashboard ***********************)
\* the rows of the tab that was rendered
TabRows == OfEmpresa(frame, tab)

\* the rows of df of one route that have a TOTAL
RouteRows(df, trecho) ==
    {i \in 1..Len(df) : df[i]["TRECHO"] = trecho /\ df[i]["TOTAL"] # NoneVal}

\* the TOTAL of the rows idx of df in ascending order, a value as often as
\* there are rows of it
RECURSIVE LowestTotals(_, _)
LowestTotals(df, idx) ==
    IF idx = {} THEN <<>>
    ELSE LET i == CHOOSE j \in idx :
                      \A k \in idx : Cents(df[j]["TOTAL"]) <= Cents(df[k]["TOTAL"])
         IN  <<Cents(df[i]["TOTAL"])>> \o LowestTotals(df, idx \ {i})

\* a set of amounts in ascending order, each once
RECURSIVE AscendingCents(_)
AscendingCents(S) ==
    IF S = {} THEN <<>>
    ELSE LET m == CHOOSE x \in S : \A y \in S : x <= y
         IN  <<m>> \o AscendingCents(S \ {m})

\* the columns PRECO TOP 1 to 3 of a row of the table are the first of lows
Lists(row, lows) ==
    \A k \in 1..3 :
        row.PRECO[k] = IF k <= Len(lows) THEN <<lows[k], 1>> ELSE NoneVal

\* C22 as stated: with "Menor preco" on, the row of a route in the Top-3
\* table lists the three lowest TOTAL of the rows of the route (of all of
\* them when they are fewer) in ascending order, the TOTAL being counted by
\* row or by value
C22_Top3ListsLowestTotalsOfRows ==
    (tab # "none" /\ agg = "min") =>
        \A t \in {TabRows[i]["TRECHO"] : i \in 1..Len(TabRows)} :
            RouteRows(TabRows, t) # {} =>
                \E r \in 1..Len(table) :
                    /\ table[r].TRECHO = t
                    /\ \/ Lists(table[r], LowestTotals(TabRows, RouteRows(TabRows, t)))
                       \/ Lists(table[r],
                                AscendingCents({Cents(TabRows[i]["TOTAL"]) :
                                                   i \in RouteRows(TabRows, t)}))

\* the routes and the ADVP of the rows that have both
RoutesWithAdvp(df) ==
    {df[i]["TRECHO"] : i \in {j \in 1..Len(df) : /\ df[j]["TRECHO"] # NoneVal
                                               /\ df[j]["ADVP"] # NoneVal}}
AdvpsOfRoute(df, trecho) ==
    {df[i]["ADVP"] : i \in {j \in 1..Len(df) : /\ df[j]["TRECHO"] = trecho
                                              /\ df[j]["ADVP"] # NoneVal}}

\* C22, amended: the table has one row for each route that has rows with an
\* ADVP; the row lists the three lowest of the values of the ADVP of the route
\* (of all of them when they are fewer), a value being the lowest TOTAL of the
\* rows of the route and the ADVP when "Menor preco" is on and their mean when
\* it is off; the values are in ascending order, an ADVP none of whose rows
\* has a TOTAL counting as an empty entry after the values
C22_Top3ListsLowestPerAdvpValues ==
    tab # "none" =>
        /\ {table[r].TRECHO : r \in 1..Len(table)} = RoutesWithAdvp(TabRows)
        /\ Len(table) = Cardinality(RoutesWithAdvp(TabRows))
        /\ \A r \in 1..Len(table) :
              LET t == table[r].TRECHO
                  A == AdvpsOfRoute(TabRows, t)
                  m == IF Cardinality(A) < 3 THEN Cardinality(A) ELSE 3
                  P == table[r].PRECO
              IN  /\ \A k \in (m + 1)..3 : P[k] = NoneVal
                  /\ \A k, l \in 1..m :
                        k < l => /\ P[k] = NoneVal => P[l] = NoneVal
                                 /\ (P[k] # NoneVal /\ P[l] # NoneVal)
                                        => ~ValLess(P[l], P[k])
                  /\ \E f \in [1..m -> A] :
                        /\ \A k, l \in 1..m : k # l => f[k] # f[l]
                        /\ \A k \in 1..m : P[k] = GroupVal(TabRows, t, f[k], agg)
                        /\ \A a \in A \ {f[k] : k \in 1..m} :
                              LET v == GroupVal(TabRows, t, a, agg)
                              IN  v # NoneVal =>
                                     \A k \in 1..m : /\ P[k] # NoneVal
                                                     /\ ~ValLess(v, P[k])

\* Flip's tab of a file of four ADVP of one route, the dearest of them the
\* first in the file and left out of the table
C22_Witness ==
    /\ tab = "FLIPMILHAS"
    /\ Len(table) = 1
    /\ Cardinality(AdvpsOfRoute(TabRows, table[1].TRECHO)) = 4
    /\ \A k \in 1..3 : table[1].PRECO[k] = <<45000, 1>>
    /\ GroupVal(TabRows, table[1].TRECHO, <<"days", AllAdvp[1]>>, agg) = <<48000, 1>>

\* the workbook as read_excel gives it
BookFile == read_excel(HEADERS(site), [i \in 1..Len(book.rows) |-> book.rows[i].cells])

\* the columns of the file C23 is about, the canonical columns they go to and
\* what they hold
CarriedColumns ==
    {<<"DATA DA BUSCA", "DATA DA BUSCA", "date">>,
     <<"HORA DA BUSCA", "HORA DA BUSCA", "time">>,
     <<"TRECHO", "TRECHO", "text">>,
     <<FlightDateColumn(site), "DATA PARTIDA", "date">>,
     <<"TOTAL", "TOTAL", "amount">>,
     <<"CIA DO VOO", "CIA DO VOO", "text">>}

\* the canonical value is the value of the file, as it is or in the
\* canonical format of a date, of a time or of an airline
CarriedAs(canon, v, kind) ==
    /\ canon # NoneVal
    /\ IF kind = "date" THEN canon \in {v, <<"ddmmaa", v>>}
       ELSE IF kind = "time" THEN canon \in {v, <<"hhmmss", v>>}
       ELSE IF kind = "text" THEN canon \in {v, UpperTxt(v)}
       ELSE canon = v

\* C23 as stated: the normalized frame of a workbook written by a scraper has
\* a row for each row of the file, and the search date and time, the route,
\* the flight date, the total and the airline of the row are in the canonical
\* columns DATA DA BUSCA, HORA DA BUSCA, TRECHO, DATA PARTIDA, TOTAL and CIA DO
\* VOO, none of them null where the file has a value
C23_NormalizedFrameCarriesFileValues ==
    loaded =>
        /\ Len(frame) = Len(book.rows)
        /\ \A i \in 1..Len(frame) : \A c \in CarriedColumns :
              Get(BookFile, i, c[1]) # NoneVal =>
                  CarriedAs(frame[i][c[2]], Get(BookFile, i, c[1]), c[3])

\* C24 as stated: the rows of a workbook that has the default name of its
\* scraper are attributed to the site of the scraper and so are the rows of
\* the tab of the site
C24_DefaultNameAttributedToSite ==
    (loaded /\ book.name = DefaultName(site)) =>
        /\ \A i \in 1..Len(frame) : frame[i]["EMPRESA"] = EmpresaOf(site)
        /\ Len(OfEmpresa(frame, EmpresaOf(site))) = Len(book.rows)

(******************** Properties of the tabs and of main ********************)
\* the last search went to its page
Navigated == iter.navIn # NoHandle

\* C25 as stated: every search issues its navigation in the base tab, the
\* searches that follow one that raised after switching to a detail tab
\* included
C25_NavigationInBaseTab == Navigated => iter.navIn = BaseHandle

\* C26 as stated: after a search of Flip or Max that returned without raising,
\* the commands of the driver go to the base tab, the detail tab the search
\* opened is closed, and the base tab is open
C26_ReturnedSearchLeavesBaseTabActive ==
    (site \in {"Flip", "Max"} /\ Navigated /\ iter.ended /\ ~iter.raised) =>
        /\ driver.current = BaseHandle
        /\ iter.opened # NoHandle => ~IsOpen(driver, iter.opened)
        /\ IsOpen(driver, BaseHandle)

\* main has returned or has let an exception out
MainOver == pc \in {"done", "failed"}

\* C27 as stated: once the browser was started, driver.quit() is called once
\* before main is over, never twice, and no search is under way or still to
\* come when it is called
C27_QuitExactlyOnceAfterLastSearch ==
    /\ driver.quits <= 1
    /\ (driver.started /\ MainOver) => driver.quits = 1
    /\ driver.quits >= 1 => pc = "done"

\* C28: a pass of the poll that sees both the no-offers marker and a buy
\* button returns no_flights in Flip and buy in Max, and no pass of Flip's
\* poll that read "nenhum voo" returns buy_ready
C28_BothPresentFlipNoFlightsMaxBuy ==
    (tickObs.seen /\ pc \in {"poll", "polled"}) =>
        /\ (site = "Flip" /\ FlipMarker(tickObs.txt) /\ tickObs.buy)
               => (pc = "polled" /\ status = "no_flights")
        /\ (site = "Max" /\ MaxMarker(tickObs.txt) /\ tickObs.buy)
               => (pc = "polled" /\ status = "buy")
        /\ (site = "Flip" /\ FlipMarker(tickObs.txt)) => status # "buy_ready"

C28_Witness ==
    /\ site = "Flip" /\ pc = "polled"
    /\ tickObs.seen /\ tickObs.buy
    /\ tickObs.txt = TxtNenhumVooEncontrado
    /\ status = "no_flights"

\* the searches of one cycle
SearchesOfCycle == Len(TRECHOS) * Len(ADVP_LIST)

\* Flip without --once is never over, each of its cycles is over the whole
\* list; Capo and Max run one cycle, whatever the flag
OneCycleOrForever ==
    /\ (site = "Flip" /\ ~once) => (pc # "done" /\ driver.quits = 0)
    /\ (site = "Flip" /\ ~once /\ pc = "cycle_end") => begun = SearchesOfCycle
    /\ site # "Flip" => /\ cycle <= 1
                        /\ pc = "done" => (cycle = 1 /\ begun = SearchesOfCycle)

\* a cycle begins when main starts or, in Flip without --once, when the cycle
\* before is over and main has slept 300 seconds; it begins with the first
\* route and ADVP
CycleBegins ==
    cycle' # cycle =>
        \/ cycle = 0 /\ cycle' = 1 /\ ti' = 1 /\ ai' = 1
        \/ /\ site = "Flip" /\ ~once /\ pc = "cycle_end"
           /\ slept' = 300
           /\ cycle' = cycle + 1
           /\ pc' = "idle" /\ ti' = 1 /\ ai' = 1 /\ begun' = 0

\* C29: without --once Flip's main never finishes: after each cycle it waits
\* 300 seconds and starts another cycle over the same list (as long as the
\* cycles are fewer than MaxCycles); the main of Capo and of Max runs one
\* cycle with the flag and without it
C29_FlipCyclesForeverOthersOnce ==
    /\ []OneCycleOrForever
    /\ [][CycleBegins]_vars
    /\ (site = "Flip" /\ ~once /\ pc = "cycle_end" /\ cycle < MaxCycles)
           ~> (pc = "idle" /\ begun = 0 /\ slept = 300 /\ ti = 1 /\ ai = 1)

C29_Witness ==
    /\ site = "Flip" /\ ~once
    /\ cycle = 2 /\ slept = 300
    /\ pc = "cycle_end" /\ begun = SearchesOfCycle

====
